---- MODULE Spec2Model ----
(***************************************************************************)
(* Trend tracker: the Trend-State Calculator, the Ranking Engine, the Rank *)
(* Ledger, the Backfill Simulator and the Fetcher's fallback chains.       *)
(*                                                                         *)
(* Prices are integers; every quotient the code computes in floating point *)
(* (MA20, deviation%, change%) is kept as an exact fraction [n, d] with    *)
(* d > 0, so comparisons are exact.  Python's None is the empty tuple      *)
(* None and a present value x is Some(x) = <<x>>.  Dates are day numbers   *)
(* counted from Monday 2018-01-01 (day 0).                                 *)
(***************************************************************************)
EXTENDS Integers, Sequences, FiniteSets, TLC

VARIABLES
    df,             \* the provider's daily series so far (ascending bars)
    lookback_days,  \* Calculator.lookback_days
    call,           \* arguments of the last calculate_all_metrics call
    metrics,        \* its result
    change,         \* result of the last find_status_change_date call
    items,          \* one group's result list before ranking
    ranked,         \* the list sort_by_deviation returned
    data_cache,     \* backfill: the series fetched once for the instrument
    bfRes,          \* backfill: target date, truncated frames and result list of the last date replayed
    liveRes,        \* live pipeline: as-of date and result list of the last run
    clock,          \* today's date
    market,         \* per trading day so far, what the day's data makes of each instrument
    store,          \* the ledger file ranking_history.json
    liveLog,        \* the runs of main.py that reached update_today
    bf,             \* the backfill run: its cache, loop index, prev ranks and output
    request,        \* the fetch_index call: code, source, name, days
    env,            \* what the providers do: the outcome of the k-th provider call
    fetchRes,       \* what fetch_index returned, with the trace of its provider calls
    job,            \* one invocation of an entry point: its name and its inputs
    runRes,         \* what that invocation returned or left behind
    fetchers,       \* per thread, the DataFetcher objects it has constructed
    installed       \* how many times an outbound-request hook was installed in the process

calcVars == <<df, lookback_days, call, metrics, change>>
sortVars == <<items, ranked>>
backVars == <<data_cache, bfRes, liveRes>>
rankVars == <<clock, market, store, liveLog, bf>>
fetchVars == <<request, env, fetchRes>>
runVars == <<job, runRes>>
ctorVars == <<fetchers, installed>>

----------------------------------------------------------------------------
(* Bounds of the model *)

MaxBars == 23          \* longest daily series built

MaxItems == 4          \* largest group ranked

MaxDays == 3           \* calendar days the pipeline is followed

MaxRuns == 3           \* runs of main.py that reach update_today

FirstDay == 639        \* Wednesday 2019-10-02

MaxCalls == 3          \* provider calls one fetch can make

ProviderBars == 25     \* bars in a provider's frame

MA_WINDOW == 20        \* calculator.py: the 20 of MA20
MIN_SCAN_BARS == 21    \* calculator.py:88
LIVE_DAYS == 800       \* main.py:93
BACKFILL_DAYS == 400   \* backfill_archive.py:170
DEFAULT_LOOKBACK == 250

Prices == {9, 10, 11}
BasePrices == {9, 10}
Lookbacks == {2, DEFAULT_LOOKBACK}

None == <<>>
Some(x) == <<x>>

\* F(v) with v evaluated once: a local variable assignment
Bind(v, F(_)) == CHOOSE r \in {F(x) : x \in {v}} : TRUE

----------------------------------------------------------------------------
(* Python list helpers (0-based indices, half-open slices) *)

At(s, i) == s[i + 1]

RECURSIVE SumSlice(_, _, _)
SumSlice(s, lo, hi) == IF lo >= hi THEN 0 ELSE s[lo + 1] + SumSlice(s, lo + 1, hi)

\* s[-k:]
Tail_(s, k) == IF Len(s) <= k THEN s ELSE SubSeq(s, Len(s) - k + 1, Len(s))

Closes(d) == [i \in 1..Len(d) |-> d[i].close]
Dates(d) == [i \in 1..Len(d) |-> d[i].date]

Max2(a, b) == IF a >= b THEN a ELSE b
Min2(a, b) == IF a <= b THEN a ELSE b

\* df.sort_values("date"): insertion of each bar after the bars not later than it
RECURSIVE InsertByDate(_, _)
InsertByDate(s, b) ==
    IF s = <<>> THEN <<b>>
    ELSE IF s[Len(s)].date <= b.date THEN Append(s, b)
    ELSE Append(InsertByDate(SubSeq(s, 1, Len(s) - 1), b), s[Len(s)])

sort_values(d) ==
    LET F[i \in 0..Len(d)] == IF i = 0 THEN <<>> ELSE InsertByDate(F[i - 1], d[i])
    IN  F[Len(d)]

\* exact fractions
Frac(n, d) == IF d < 0 THEN [n |-> -n, d |-> -d] ELSE [n |-> n, d |-> d]
FracEq(a, b) == a.n * b.d = b.n * a.d
FracGE(a, b) == a.n * b.d >= b.n * a.d

----------------------------------------------------------------------------
(* Calculator (calculator.py) *)

calculate_ma20_short(prices) ==
    IF Len(prices) < MA_WINDOW THEN None
    ELSE Some(Frac(SumSlice(prices, Len(prices) - (MA_WINDOW - 1), Len(prices)), MA_WINDOW - 1))

calculate_ma20(prices) ==
    IF Len(prices) < MA_WINDOW THEN None
    ELSE Some(Frac(SumSlice(prices, Len(prices) - MA_WINDOW, Len(prices)), MA_WINDOW))

calculate_status_strict(current_price, ma20) ==
    IF current_price * ma20.d > ma20.n THEN "YES" ELSE "NO"

calculate_status(current_price, ma20) ==
    IF current_price * ma20.d >= ma20.n THEN "YES" ELSE "NO"

\* the quotient taken the other way round
calculate_deviation_inverted(current_price, ma20) ==
    IF ma20.n = 0 THEN Frac(0, 1)
    ELSE Frac((ma20.n - current_price * ma20.d) * 100, ma20.n)

\* ((current_price / ma20) - 1) * 100
calculate_deviation(current_price, ma20) ==
    IF ma20.n = 0 THEN Frac(0, 1)
    ELSE Frac((current_price * ma20.d - ma20.n) * 100, ma20.n)

calculate_change(current_price, prev_close) ==
    IF prev_close = 0 THEN Frac(0, 1)
    ELSE Frac((current_price - prev_close) * 100, prev_close)

\* the status the scan recomputes at index i
StatusAt(closes, i) ==
    IF At(closes, i) * MA_WINDOW >= SumSlice(closes, i - 19, i + 1) THEN "YES" ELSE "NO"

\* a scan that ignores the lookback
ScanStop_unbounded(n, lookback) == 19

\* first index after the last one the loop of find_status_change_date visits:
\* range(n - 2, max(n - lookback - 1, 19), -1)
ScanStop(n, lookback) == Max2(n - lookback - 1, 19)

\* a scan that takes the change-date bar's own close as the reference
RECURSIVE ScanFrom_raw_close(_, _, _, _, _)
ScanFrom_raw_close(closes, dates, i, stop, current_status) ==
    IF i <= stop THEN <<None, None>>
    ELSE IF i < 19 THEN <<None, None>>
    ELSE IF StatusAt(closes, i) # current_status /\ i + 1 < Len(closes)
         THEN <<Some(At(dates, i + 1)), Some(Frac(At(closes, i + 1), 1))>>
         ELSE ScanFrom_raw_close(closes, dates, i - 1, stop, current_status)

RECURSIVE ScanFrom(_, _, _, _, _)
ScanFrom(closes, dates, i, stop, current_status) ==
    IF i <= stop THEN <<None, None>>
    ELSE IF i < 19 THEN <<None, None>>
    ELSE IF StatusAt(closes, i) # current_status /\ i + 1 < Len(closes)
         THEN <<Some(At(dates, i + 1)),
                Some(Frac(SumSlice(closes, i - 18, i + 2), MA_WINDOW))>>
         ELSE ScanFrom(closes, dates, i - 1, stop, current_status)

find_status_change_date(d, current_status, lookback) ==
    IF Len(d) < MIN_SCAN_BARS THEN <<None, None>>
    ELSE Bind(sort_values(d), LAMBDA s :
         Bind(Closes(s), LAMBDA closes :
              ScanFrom(closes, Dates(s), Len(s) - 2,
                       ScanStop(Len(s), lookback), current_status)))

calculate_interval_change(current_price, change_ma20) ==
    IF change_ma20 = None \/ change_ma20[1].n = 0 THEN None
    ELSE Some(Frac((current_price * change_ma20[1].d - change_ma20[1].n) * 100,
                   change_ma20[1].n))

\* one timeframe of calculate_big_cycle_status
CycleStatus(current_price, period_df) ==
    IF period_df # None /\ Len(period_df[1]) >= MA_WINDOW
    THEN Bind(Append(Tail_(Closes(period_df[1]), 19), current_price), LAMBDA ma20_prices :
              IF Len(ma20_prices) >= MA_WINDOW
              THEN IF current_price * MA_WINDOW >=
                      SumSlice(ma20_prices, Len(ma20_prices) - MA_WINDOW, Len(ma20_prices))
                   THEN "YES" ELSE "NO"
              ELSE "-")
    ELSE "-"

calculate_big_cycle_status(current_price, weekly_df, monthly_df) ==
    <<CycleStatus(current_price, weekly_df), CycleStatus(current_price, monthly_df)>>

EmptyMetrics ==
    [current_price |-> None, prev_close |-> None, ma20 |-> None, status |-> None,
     change |-> None, deviation |-> None, change_date |-> None,
     change_price |-> None, interval_change |-> None,
     big_cycle_status |-> <<"-">>, error |-> None]

\* the part of calculate_all_metrics after the sort and the length check
MetricsOfSorted(s, closes, current_price, weekly_df, monthly_df, lookback) ==
    LET cp == IF current_price # None THEN current_price[1] ELSE At(closes, Len(closes) - 1)
        ma20_prices == IF current_price # None
                       THEN Append(Tail_(closes, 19), current_price[1])
                       ELSE Tail_(closes, 20)
        prev == IF Len(closes) >= 2 THEN At(closes, Len(closes) - 2)
                ELSE At(closes, Len(closes) - 1)
    IN
    Bind(calculate_ma20(ma20_prices), LAMBDA ma20 :
    IF ma20 = None
    THEN [EmptyMetrics EXCEPT !.current_price = Some(cp), !.prev_close = Some(prev),
                              !.error = Some("ma20_failed")]
    ELSE
    Bind(calculate_status(cp, ma20[1]), LAMBDA status :
    Bind(find_status_change_date(s, status, lookback), LAMBDA found :
        [current_price |-> Some(cp),
         prev_close |-> Some(prev),
         ma20 |-> ma20,
         status |-> Some(status),
         change |-> Some(calculate_change(cp, prev)),
         deviation |-> Some(calculate_deviation(cp, ma20[1])),
         change_date |-> found[1],
         change_price |-> found[2],
         interval_change |-> calculate_interval_change(cp, found[2]),
         big_cycle_status |-> calculate_big_cycle_status(cp, weekly_df, monthly_df),
         error |-> None])))

\* a calculator that reports no error for a series of fewer than 20 bars
calculate_all_metrics_silent(d, current_price, weekly_df, monthly_df, lookback) ==
    IF d = None \/ d[1] = <<>> THEN [EmptyMetrics EXCEPT !.error = Some("data_abnormal")]
    ELSE
    Bind(sort_values(d[1]), LAMBDA s :
    IF Len(s) < MA_WINDOW THEN EmptyMetrics
    ELSE Bind(Closes(s), LAMBDA closes :
              MetricsOfSorted(s, closes, current_price, weekly_df, monthly_df, lookback)))

\* d: Some(series) or None; current_price: Some(price) or None
calculate_all_metrics(d, current_price, weekly_df, monthly_df, lookback) ==
    IF d = None \/ d[1] = <<>> THEN [EmptyMetrics EXCEPT !.error = Some("data_abnormal")]
    ELSE
    Bind(sort_values(d[1]), LAMBDA s :
    IF Len(s) < MA_WINDOW THEN [EmptyMetrics EXCEPT !.error = Some("data_insufficient")]
    ELSE Bind(Closes(s), LAMBDA closes :
              MetricsOfSorted(s, closes, current_price, weekly_df, monthly_df, lookback)))

----------------------------------------------------------------------------
(* Ranking Engine (calculator.py, sort_by_deviation) *)

\* item.get("deviation") is not None
HasDeviation(item) == item.deviation # None

Filter(s, keep_valid) ==
    LET F[i \in 0..Len(s)] ==
            IF i = 0 THEN <<>>
            ELSE IF HasDeviation(s[i]) = keep_valid THEN Append(F[i - 1], s[i])
            ELSE F[i - 1]
    IN  F[Len(s)]

\* list.sort(key=deviation, reverse=True): stable, equal keys keep their order
RECURSIVE InsertDesc(_, _)
InsertDesc(s, x) ==
    IF s = <<>> THEN <<x>>
    ELSE IF FracGE(s[Len(s)].deviation[1], x.deviation[1]) THEN Append(s, x)
    ELSE Append(InsertDesc(SubSeq(s, 1, Len(s) - 1), x), s[Len(s)])

RECURSIVE SortDesc(_)
SortDesc(s) ==
    IF s = <<>> THEN <<>>
    ELSE InsertDesc(SortDesc(SubSeq(s, 1, Len(s) - 1)), s[Len(s)])

\* enumerate(list, start): item i of the list gets rank start + i - 1
Enumerate(s, start) == [i \in 1..Len(s) |-> [s[i] EXCEPT !.rank = Some(start + i - 1)]]

sort_by_deviation_keep_error_rank(its) ==
    Bind(its, LAMBDA its_ :
         Enumerate(SortDesc(Filter(its_, TRUE)), 1) \o Filter(its_, FALSE))

sort_by_deviation(its) ==
    Bind(its, LAMBDA its_ :
    Bind(SortDesc(Filter(its_, TRUE)), LAMBDA valid_items :
    Bind(Filter(its_, FALSE), LAMBDA error_items :
         Enumerate(valid_items, 1) \o Enumerate(error_items, Len(valid_items) + 1))))

\* the entry process_indices appends for an instrument whose fetch failed
FetchFailedItem(code) ==
    [code |-> code, deviation |-> None, error |-> Some("data_abnormal"), rank |-> Some(0),
     rank_change |-> None, snapshot |-> None]

\* the entry process_indices builds from a Metrics Snapshot
MetricsItem(code, m) ==
    [code |-> code, deviation |-> m.deviation, error |-> m.error, rank |-> None,
     rank_change |-> None, snapshot |-> Some(m)]

----------------------------------------------------------------------------
(* Calendar: day 0 is Monday 2018-01-01; 2018 and 2019 are not leap years *)

MonthLens == <<31, 28, 31, 30, 31, 30, 31, 31, 30, 31, 30, 31>>

Weekday(d) == d % 7            \* 0 = Monday .. 6 = Sunday

\* weeks labelled with their Friday
WeekEnd_friday(d) == d + (4 - Weekday(d))

\* the Sunday on or after d: the right edge, and label, of pandas' "W" bin
WeekEnd(d) == d + (6 - Weekday(d))

RECURSIVE MonthEndFrom(_, _, _)
MonthEndFrom(doy, m, first) ==
    IF doy < first + MonthLens[m] THEN first + MonthLens[m] - 1
    ELSE MonthEndFrom(doy, m + 1, first + MonthLens[m])

\* the last calendar day of d's month: the label of pandas' "ME" bin
MonthEnd(d) == (d \div 365) * 365 + MonthEndFrom(d % 365, 1, 0)

NextTradingDay(d) ==
    IF Weekday(d) = 4 THEN d + 3 ELSE IF Weekday(d) = 5 THEN d + 2 ELSE d + 1

----------------------------------------------------------------------------
(* Resampler *)

\* the label of the calendar window a date falls in
WindowLabel(rule, date) == IF rule = "W" THEN WeekEnd(date) ELSE MonthEnd(date)

\* an aggregation that keeps the high and the low of the window's first bar
Aggregate_first_bar_range(out, b, lab) ==
    IF out # <<>> /\ out[Len(out)].date = lab
    THEN [out EXCEPT ![Len(out)] =
             [date |-> lab, open |-> @.open, high |-> @.high, low |-> @.low,
              close |-> b.close]]
    ELSE Append(out, [date |-> lab, open |-> b.open, high |-> b.high,
                      low |-> b.low, close |-> b.close])

\* one more daily bar b aggregated into the derived series out
Aggregate(out, b, lab) ==
    IF out # <<>> /\ out[Len(out)].date = lab
    THEN [out EXCEPT ![Len(out)] =
             [date |-> lab, open |-> @.open, high |-> Max2(@.high, b.high),
              low |-> Min2(@.low, b.low), close |-> b.close]]
    ELSE Append(out, [date |-> lab, open |-> b.open, high |-> b.high,
                      low |-> b.low, close |-> b.close])

\* set_index("date").resample(rule).agg(first, max, min, last).dropna().reset_index()
\* of an ascending series: one bar per window that holds a daily bar, labelled
\* with the window's last day
Resample(d, rule) ==
    LET F[i \in 0..Len(d)] ==
            IF i = 0 THEN <<>>
            ELSE Bind(F[i - 1], LAMBDA out :
                 Bind(WindowLabel(rule, d[i].date), LAMBDA lab : Aggregate(out, d[i], lab)))
    IN  F[Len(d)]

\* d: Some(series) or None
process_weekly_data(d) ==
    IF d = None \/ d[1] = <<>> THEN None ELSE Some(Resample(d[1], "W"))

process_monthly_data(d) ==
    IF d = None \/ d[1] = <<>> THEN None ELSE Some(Resample(d[1], "ME"))

----------------------------------------------------------------------------
(* Live pipeline, one group (main.py, process_indices) *)

\* fetched: what fetch_index returned for the instrument, Some(series) or None
LiveItem(code, fetched, lookback) ==
    Bind(fetched, LAMBDA d :
    IF d = None \/ d[1] = <<>> THEN FetchFailedItem(code)
    ELSE Bind(process_weekly_data(d), LAMBDA weekly_df :
         Bind(process_monthly_data(d), LAMBDA monthly_df :
         Bind(calculate_all_metrics(d, None, weekly_df, monthly_df, lookback), LAMBDA m :
              MetricsItem(code, m)))))

\* logger.debug(f"... {metrics.get('deviation'):.2f}%"): formatting None raises
\* TypeError, whatever the log level
DebugLineRaises(item) == item.snapshot # None /\ item.deviation = None

Raised == [raised |-> TRUE, value |-> None]
Returned(v) == [raised |-> FALSE, value |-> Some(v)]

\* process_indices on the entries its loop builds: the loop raises at the
\* first entry whose debug line raises, else the entries are sorted
RankEntries(entries) ==
    IF \E i \in 1..Len(entries) : DebugLineRaises(entries[i]) THEN Raised
    ELSE Returned(sort_by_deviation(entries))

\* fetched: code -> what fetch_index returned for it
process_indices(codes, fetched, lookback) ==
    Bind([i \in 1..Len(codes) |-> LiveItem(codes[i], fetched[codes[i]], lookback)],
         LAMBDA entries : RankEntries(entries))

----------------------------------------------------------------------------
(* Backfill Simulator (backfill_archive.py) *)

\* a mask that leaves out the target date itself
KeepUpTo_before(d, target_date) == SelectSeq(d, LAMBDA b : b.date < target_date)

\* df[df["date"] <= target_date]
KeepUpTo(d, target_date) == SelectSeq(d, LAMBDA b : b.date <= target_date)

\* a rewind that keeps the bars after the target date
simulate_data_at_date_whole(d, target_date) ==
    IF d = None \/ d[1] = <<>> THEN None ELSE d

\* d: Some(series) or None
simulate_data_at_date(d, target_date) ==
    IF d = None \/ d[1] = <<>> THEN None ELSE Some(KeepUpTo(d[1], target_date))

\* the cache entry main() preloads for one instrument
CacheEntry(fetched) ==
    Bind(fetched, LAMBDA d :
         [daily |-> d, weekly |-> process_weekly_data(d),
          monthly |-> process_monthly_data(d)])

AtDateItem(code, cached, target_date, lookback) ==
    IF cached.daily = None \/ cached.daily[1] = <<>> THEN FetchFailedItem(code)
    ELSE Bind(simulate_data_at_date(cached.daily, target_date), LAMBDA df_at_date :
         IF df_at_date = None \/ df_at_date[1] = <<>> THEN FetchFailedItem(code)
         ELSE Bind(IF cached.weekly # None
                   THEN simulate_data_at_date(cached.weekly, target_date)
                   ELSE None, LAMBDA weekly_at_date :
              Bind(IF cached.monthly # None
                   THEN simulate_data_at_date(cached.monthly, target_date)
                   ELSE None, LAMBDA monthly_at_date :
              Bind(calculate_all_metrics(df_at_date, None, weekly_at_date,
                                         monthly_at_date, lookback), LAMBDA m :
                   MetricsItem(code, m)))))

\* cache: code -> cache entry
process_indices_at_date(codes, cache, target_date, lookback) ==
    sort_by_deviation([i \in 1..Len(codes) |->
                          AtDateItem(codes[i], cache[codes[i]], target_date, lookback)])

\* what a fetch of the last `days` bars returns from a provider holding d
FetchedTail(d, days) == Some(Tail_(d, days))

----------------------------------------------------------------------------
(* The provider's daily series: 19 sparse bars, then one bar per trading day *)

Bar(date, close, prev) ==
    [date |-> date, close |-> close, open |-> prev,
     high |-> Max2(prev, close), low |-> Min2(prev, close)]

InitialSeries(base) == [i \in 1..19 |-> Bar(3 + 35 * (i - 1), base, base)]

AppendBar ==
    /\ Len(df) < MaxBars
    /\ \E c \in Prices :
         df' = Append(df, Bar(NextTradingDay(df[Len(df)].date), c, df[Len(df)].close))
    /\ call' = None
    /\ metrics' = None
    /\ change' = None
    /\ UNCHANGED lookback_days

\* one evaluation of an instrument: calculate_all_metrics on the series so far
Calculate ==
    /\ \E cp \in {None} \cup {Some(p) : p \in Prices} :
       \E weekly_df \in {process_weekly_data(Some(df))} :
       \E monthly_df \in {process_monthly_data(Some(df))} :
         /\ call' = Some([df |-> df, current_price |-> cp])
         /\ metrics' = Some(calculate_all_metrics(Some(df), cp, weekly_df, monthly_df,
                                                  lookback_days))
    /\ change' = None
    /\ UNCHANGED <<df, lookback_days>>

FindChange ==
    /\ \E st \in {"YES", "NO"} :
         change' = Some([df |-> df, current_status |-> st,
                         found |-> find_status_change_date(df, st, lookback_days)])
    /\ call' = None
    /\ metrics' = None
    /\ UNCHANGED <<df, lookback_days>>

SortIdle == items = <<>> /\ ranked = None

BackIdle == data_cache = None /\ bfRes = None /\ liveRes = None

RankIdle == clock = FirstDay /\ market = <<>> /\ store = None /\ liveLog = <<>> /\ bf = None

FetchIdle == request = None /\ env = <<>> /\ fetchRes = None

RunIdle == job = None /\ runRes = None

MaxThreads == 3        \* threads constructing DataFetchers

Threads == 1..MaxThreads

CtorIdle == fetchers = [t \in Threads |-> <<>>] /\ installed = 0

CalcInit ==
    /\ SortIdle
    /\ BackIdle
    /\ RankIdle
    /\ FetchIdle
    /\ RunIdle /\ CtorIdle
    /\ \E base \in BasePrices : df = InitialSeries(base)
    /\ lookback_days \in Lookbacks
    /\ call = None
    /\ metrics = None
    /\ change = None

CalcNext ==
    (AppendBar \/ Calculate \/ FindChange) /\ UNCHANGED <<sortVars, backVars, rankVars, fetchVars, runVars, ctorVars>>

vars == <<calcVars, sortVars, backVars, rankVars, fetchVars, runVars, ctorVars>>

SpecCalc == CalcInit /\ [][CalcNext]_vars

----------------------------------------------------------------------------
(* Claims about the Calculator, checked under SpecCalc *)

\* the bar at Python index i closes at or above the mean of the 20 closes ending at i
AboveAt(d, i) == At(Closes(d), i) * 20 >= SumSlice(Closes(d), i - 19, i + 1)

\* BELOW on every bar up to k that has a trailing MA20, ABOVE on bars k+1..end
BelowThenAbove(d, k) ==
    /\ k + 1 <= Len(d) - 1
    /\ \A i \in 19..k : ~AboveAt(d, i)
    /\ \A i \in (k + 1)..(Len(d) - 1) : AboveAt(d, i)

\* k is one of the lookback bars that precede the latest bar
InLookback(d, k, lookback) == k >= Len(d) - lookback /\ k <= Len(d) - 2

\* C1: for a series BELOW on bars 0..k and ABOVE on bars k+1..end, the scan
\* called with current status ABOVE returns the date of bar k+1, for every
\* k >= 19 within the lookback window.
C1_ChangeDateIsDayAfterK ==
    (change # None /\ change[1].current_status = "YES") =>
        \A k \in 19..(Len(change[1].df) - 2) :
            (BelowThenAbove(change[1].df, k) /\ InLookback(change[1].df, k, lookback_days))
                => change[1].found[1] = Some(At(Dates(change[1].df), k + 1))

\* nineteen 9s followed by 10
IsExampleSeries(d) ==
    /\ Len(d) = 20
    /\ \A i \in 1..19 : d[i].close = 9
    /\ d[20].close = 10

\* C2: an override price replaces the latest close: MA20 is the mean of the
\* override and the 19 closes before the latest close; for nineteen 9s then 10
\* with override 11, MA20 = 9.1, status ABOVE, deviation% = (11/9.1 - 1)*100.
C2_OverrideReplacesLatestClose ==
    (call # None /\ call[1].current_price # None /\ Len(call[1].df) >= 20) =>
        LET d == call[1].df
            cp == call[1].current_price[1]
            n == Len(d)
        IN  /\ metrics[1].ma20 # None
            /\ FracEq(metrics[1].ma20[1], Frac(cp + SumSlice(Closes(d), n - 20, n - 1), 20))
            /\ (IsExampleSeries(d) /\ cp = 11) =>
                  /\ FracEq(metrics[1].ma20[1], Frac(91, 10))
                  /\ metrics[1].status = Some("YES")
                  /\ FracEq(metrics[1].deviation[1], Frac((110 - 91) * 100, 91))

\* C3: with N >= 20 bars and no override, current_price is the last close,
\* ma20 is the mean of the last 20 closes, and status is ABOVE exactly when
\* current_price >= ma20.
C3_SnapshotWithoutOverride ==
    (call # None /\ call[1].current_price = None /\ Len(call[1].df) >= 20) =>
        LET d == call[1].df
            n == Len(d)
            last == d[n].close
            sum20 == SumSlice(Closes(d), n - 20, n)
        IN  /\ metrics[1].error = None
            /\ metrics[1].current_price = Some(last)
            /\ metrics[1].ma20 # None
            /\ FracEq(metrics[1].ma20[1], Frac(sum20, 20))
            /\ metrics[1].status = IF last * 20 >= sum20 THEN Some("YES") ELSE Some("NO")

\* a snapshot without override whose price equals its MA20, and one below it
C3_Witness ==
    /\ call # None /\ call[1].current_price = None /\ Len(call[1].df) >= 21
    /\ metrics[1].status = Some("YES")
    /\ call[1].df[Len(call[1].df)].close * 20
         = SumSlice(Closes(call[1].df), Len(call[1].df) - 20, Len(call[1].df))
    /\ call[1].df[Len(call[1].df) - 1].close # call[1].df[Len(call[1].df)].close

----------------------------------------------------------------------------
(* The Ranking Engine on one group: process_indices_at_date collects the  *)
(* entries, then sorts them                                                *)

Codes == <<"A", "B", "C", "D", "E">>
Deviations == {Frac(-100, 181), Frac(0, 200), Frac(300, 197)}

\* a Metrics Snapshot reduced to the fields the Ranking Engine reads
SnapshotOf(dev) ==
    IF dev = None THEN [EmptyMetrics EXCEPT !.error = Some("data_insufficient")]
    ELSE [EmptyMetrics EXCEPT !.deviation = dev]

\* process_indices_at_date, loop body: one more instrument of the group is
\* processed
Collect ==
    /\ ranked = None
    /\ Len(items) < MaxItems
    /\ \E kind \in {"fetch_failed", "metrics"} :
       \E dev \in {None} \cup {Some(x) : x \in Deviations} :
         /\ kind = "fetch_failed" => dev = None
         /\ items' = Append(items,
                IF kind = "fetch_failed" THEN FetchFailedItem(Codes[Len(items) + 1])
                ELSE MetricsItem(Codes[Len(items) + 1], SnapshotOf(dev)))
    /\ UNCHANGED ranked

\* process_indices_at_date, last statement
Rank ==
    /\ ranked = None
    /\ ranked' = Some(sort_by_deviation(items))
    /\ UNCHANGED items

CalcIdle ==
    /\ df = <<>> /\ lookback_days = DEFAULT_LOOKBACK
    /\ call = None /\ metrics = None /\ change = None

SortInit ==
    CalcIdle /\ BackIdle /\ RankIdle /\ FetchIdle /\ RunIdle /\ CtorIdle /\ items = <<>> /\ ranked = None

SortNext == (Collect \/ Rank) /\ UNCHANGED <<calcVars, backVars, rankVars, fetchVars, runVars, ctorVars>>

SpecSort == SortInit /\ [][SortNext]_vars

ValidCount(its) == Cardinality({i \in 1..Len(its) : its[i].deviation # None})

\* C4: the N valid entries get the ranks 1..N in order of descending
\* deviation, the M error entries get exactly N+1..N+M after all valid ones,
\* and no error entry (a rank-0 placeholder included) ends with a rank <= N.
C4_RanksValidThenError ==
    ranked # None =>
        LET r == ranked[1]
            N == ValidCount(items)
        IN  /\ Len(r) = Len(items)
            /\ \A i \in 1..Len(r) : r[i].rank = Some(i)
            /\ \A i \in 1..Len(r) : (r[i].deviation # None) <=> i <= N
            /\ \A i \in 1..Len(r) : (r[i].error # None) => r[i].rank[1] > N
            /\ \A i \in 1..(N - 1) : FracGE(r[i].deviation[1], r[i + 1].deviation[1])
            /\ \A c \in {items[i].code : i \in 1..Len(items)} :
                 \E i \in 1..Len(r) :
                    /\ r[i].code = c
                    /\ \A j \in 1..Len(items) : items[j].code = c =>
                          r[i].deviation = items[j].deviation /\ r[i].error = items[j].error

\* a ranked group with two valid entries out of input order and a fetch-failed
\* placeholder among the errors
C4_Witness ==
    /\ ranked # None
    /\ ValidCount(items) >= 2
    /\ \E i \in 1..Len(items) : items[i].rank = Some(0)
    /\ \E i \in 1..Len(items) : items[i].deviation = None /\ items[i].rank = None
    /\ \E i, j \in 1..Len(items) :
          /\ i < j /\ items[i].deviation # None /\ items[j].deviation # None
          /\ ~FracGE(items[i].deviation[1], items[j].deviation[1])

----------------------------------------------------------------------------
(* Backfill against the live pipeline, one instrument *)

Instrument == <<"A">>

LiveFetched == [code \in {"A"} |-> FetchedTail(df, LIVE_DAYS)]

\* a live run on the day the provider's series ends
LiveRun ==
    /\ data_cache = None
    /\ \E r \in {process_indices(Instrument, LiveFetched, lookback_days)} :
         IF r.raised THEN UNCHANGED liveRes
         ELSE liveRes' = Some([date |-> df[Len(df)].date, results |-> r.value[1]])
    /\ UNCHANGED <<data_cache, bfRes>>

\* backfill main(): the single fetch of the full series, and its resampling
Preload ==
    /\ data_cache = None
    /\ data_cache' = Some([code \in {"A"} |-> CacheEntry(FetchedTail(df, BACKFILL_DAYS))])
    /\ UNCHANGED <<bfRes, liveRes>>

\* data_cache after process_indices_at_date: an entry is added for an
\* instrument not cached yet, the entries already there are only read (every
\* truncation works on df.copy())
CacheAfterDate(codes, cache, fetched) ==
    [code \in DOMAIN cache \cup {codes[i] : i \in 1..Len(codes)} |->
        IF code \in DOMAIN cache THEN cache[code] ELSE CacheEntry(fetched[code])]

\* backfill main(): one iteration of the per-date loop; df_at_date,
\* weekly_at_date and monthly_at_date are the locals of process_indices_at_date
BackfillDate ==
    /\ data_cache # None
    /\ \E i \in 19..Len(df) :
         bfRes' = Some([date |-> df[i].date,
                        df_at_date |-> simulate_data_at_date(data_cache[1]["A"].daily,
                                                             df[i].date),
                        weekly_at_date |-> simulate_data_at_date(data_cache[1]["A"].weekly,
                                                                 df[i].date),
                        monthly_at_date |-> simulate_data_at_date(data_cache[1]["A"].monthly,
                                                                  df[i].date),
                        results |-> process_indices_at_date(Instrument, data_cache[1],
                                                            df[i].date, lookback_days)])
    /\ data_cache' = Some(CacheAfterDate(Instrument, data_cache[1],
                                          [code \in {"A"} |-> FetchedTail(df, BACKFILL_DAYS)]))
    /\ UNCHANGED liveRes

BackInit ==
    /\ SortIdle
    /\ BackIdle
    /\ RankIdle
    /\ FetchIdle
    /\ RunIdle /\ CtorIdle
    /\ \E base \in BasePrices : df = InitialSeries(base)
    /\ lookback_days = DEFAULT_LOOKBACK
    /\ call = None /\ metrics = None /\ change = None

BackNext ==
    \/ (data_cache = None /\ AppendBar /\ UNCHANGED <<sortVars, backVars, rankVars, fetchVars, runVars, ctorVars>>)
    \/ ((LiveRun \/ Preload \/ BackfillDate) /\ UNCHANGED <<calcVars, sortVars, rankVars, fetchVars, runVars, ctorVars>>)

SpecBackfill == BackInit /\ [][BackNext]_vars

SameDate == bfRes # None /\ liveRes # None /\ bfRes[1].date = liveRes[1].date

\* C5: for every target date D the snapshot the backfill produces by
\* truncating the full daily, weekly and monthly series to D equals, field by
\* field (big_cycle_status included), the snapshot of the live pipeline on the
\* series that ends at D.
C5_BackfillEqualsLive ==
    SameDate => bfRes[1].results[1].snapshot = liveRes[1].results[1].snapshot

----------------------------------------------------------------------------
(* Rank Ledger (ranking_store.py) *)

\* RankingStore.__init__: the store before any file exists
EmptyLedger == [today |-> None, yesterday |-> None]

\* RankingStore.load; file: Some(contents) or None when the file is missing
load(file) == IF file = None THEN EmptyLedger ELSE file[1]

\* dict.get(key)
Get(dict, key) == IF key \in DOMAIN dict THEN Some(dict[key]) ELSE None

EmptyDict == [c \in {} |-> 0]

\* date.isoformat(): year, month and day of a day number
RECURSIVE MonthDayFrom(_, _)
MonthDayFrom(doy, m) ==
    IF doy < MonthLens[m] THEN <<m, doy + 1>>
    ELSE MonthDayFrom(doy - MonthLens[m], m + 1)

isoformat(d) == <<2018 + (d \div 365)>> \o MonthDayFrom(d % 365, 1)

get_yesterday_rank(data, code, index_type) ==
    IF data.yesterday = None THEN None
    ELSE Get(data.yesterday[1][index_type], code)

NewGeneration(date_str, major_ranks, sector_ranks) ==
    [date |-> date_str, major_indices |-> major_ranks, sector_indices |-> sector_ranks]

\* an update that starts a new 'today' without moving the old one
update_today_keep_yesterday(data, record_date, major_ranks, sector_ranks) ==
    [data EXCEPT !.today = Some(NewGeneration(isoformat(record_date), major_ranks,
                                               sector_ranks))]

update_today_rotating(data, record_date, major_ranks, sector_ranks) ==
    [today |-> Some(NewGeneration(isoformat(record_date), major_ranks, sector_ranks)),
     yesterday |-> data.today]

\* the value of self.data that update_today saves
update_today(data, record_date, major_ranks, sector_ranks) ==
    LET date_str == isoformat(record_date)
        today_data == data.today
    IN  IF today_data = None \/ today_data[1].date # date_str
        THEN [today |-> Some(NewGeneration(date_str, major_ranks, sector_ranks)),
              yesterday |-> today_data]
        ELSE [data EXCEPT !.today = Some([today_data[1] EXCEPT
                                             !.major_indices = major_ranks,
                                             !.sector_indices = sector_ranks])]

----------------------------------------------------------------------------
(* Source Resolver / Fetcher (data_fetcher.py)                             *)
(* A fetch is followed through its provider calls: t.calls is the sequence *)
(* of provider calls made so far, t.tried the strategies entered so far,   *)
(* and the k-th provider call of the fetch gets the outcome env[k].        *)

\* what a provider call can do: return a full frame, a frame without the
\* open/high/low columns, a frame without the close column, nothing, raise a
\* network timeout, raise an error that is no network failure (a TypeError
\* inside the provider library), or return a full frame as providers deliver
\* them: latest row first, one date twice, one close that is no number
Outcomes == {"ok", "no_optional", "missing_field", "empty", "timeout", "fatal", "dirty"}

\* pd.to_numeric(..., errors="coerce") of a close that does not parse; prices
\* are positive
NaN == -1

ProviderRows ==
    [i \in 1..ProviderBars |->
        [date |-> i, close |-> 10 + (i % 3), open |-> 10, high |-> 13, low |-> 9]]

\* the latest bar comes first, the last row repeats the date before it, and
\* the close three days before the latest does not parse
DirtyRows ==
    [i \in 1..ProviderBars |->
        [date |-> IF i = 1 THEN ProviderBars
                  ELSE IF i = ProviderBars THEN ProviderBars - 1 ELSE i,
         close |-> IF i = ProviderBars - 2 THEN NaN ELSE 10 + (i % 3),
         open |-> 10, high |-> 13, low |-> 9]]

\* the frame a provider returns for an outcome (rows <<>>: None or empty)
ProviderFrame(provider, symbol, outcome) ==
    [provider |-> provider, symbol |-> symbol,
     cols |-> IF outcome \in {"ok", "dirty"} THEN {"date", "close", "open", "high", "low"}
              ELSE IF outcome = "no_optional" THEN {"date", "close"}
              ELSE IF outcome = "missing_field" THEN {"date", "open", "high", "low"}
              ELSE {},
     rows |-> IF outcome \in {"empty", "timeout", "fatal"} THEN <<>>
              ELSE IF outcome = "dirty" THEN DirtyRows ELSE ProviderRows]

NoTrace == [calls |-> <<>>, tried |-> <<>>]

Enter(strategy, t) == [t EXCEPT !.tried = Append(@, strategy)]

\* ak.<provider>(symbol=...)
Call(provider, symbol, t) ==
    [outcome |-> env[Len(t.calls) + 1],
     t |-> [t EXCEPT !.calls = Append(@, [provider |-> provider, symbol |-> symbol])]]

\* how a strategy's body ends on a provider result. checks: the strategy tests
\* for the date and close columns itself; optional: what it does about
\* open/high/low ("fill" them from close when absent, "overwrite" them with
\* close, or "require" them: a KeyError when absent)
Digest(outcome, frame, checks, optional) ==
    IF outcome \in {"timeout", "fatal"} THEN "raise"
    ELSE IF frame.rows = <<>> THEN "empty"
    ELSE IF ~({"date", "close"} \subseteq frame.cols)
         THEN IF checks THEN "missing" ELSE "raise"
    ELSE IF optional = "require" /\ ~({"open", "high", "low"} \subseteq frame.cols)
         THEN "raise"
    ELSE "series"

FillOptional(rows, cols, optional) ==
    [i \in 1..Len(rows) |->
        [date |-> rows[i].date, close |-> rows[i].close,
         open |-> IF optional = "overwrite" \/ "open" \notin cols
                  THEN rows[i].close ELSE rows[i].open,
         high |-> IF optional = "overwrite" \/ "high" \notin cols
                  THEN rows[i].close ELSE rows[i].high,
         low |-> IF optional = "overwrite" \/ "low" \notin cols
                 THEN rows[i].close ELSE rows[i].low]]

\* df.dropna(subset=["close"])
dropna(rows) == SelectSeq(rows, LAMBDA b : b.close # NaN)

\* rename, coerce, dropna where the strategy has it, sort_values("date")
\* .tail(days), then the selection of the five columns
Normalize(frame, days, optional, drops) ==
    [provider |-> frame.provider, symbol |-> frame.symbol,
     cols |-> {"date", "close", "open", "high", "low"},
     rows |-> Bind(FillOptional(frame.rows, frame.cols, optional), LAMBDA filled :
                   Tail_(sort_values(IF drops THEN dropna(filled) ELSE filled), days))]

\* one provider call and what the strategy's body makes of it
Attempt(provider, symbol, days, checks, optional, drops, t) ==
    Bind(Call(provider, symbol, t), LAMBDA c :
    Bind(ProviderFrame(provider, symbol, c.outcome), LAMBDA frame :
    Bind(Digest(c.outcome, frame, checks, optional), LAMBDA d :
         [digest |-> d,
          series |-> IF d = "series" THEN Some(Normalize(frame, days, optional, drops))
                     ELSE None,
          t |-> c.t])))

\* code.startswith(prefix)
StartsWith(code, prefix) ==
    Len(code) >= Len(prefix) /\ SubSeq(code, 1, Len(prefix)) = prefix

em_code_map(code) == IF code = "1B0819" THEN "000819" ELSE "000932"

\* the symbol a provider gets for a name that may be None
SymbolOf(name) == IF name = None THEN "None" ELSE name[1]

\* what a strategy returns: Some(series) or None, and the trace so far
Res(series, t) == [series |-> series, t |-> t]

_fetch_spot_price(code, days, t0) ==
    LET t == Enter("_fetch_spot_price", t0)
    IN  IF code \notin {"XAU", "XAG"} THEN Res(None, t)
        ELSE Bind(Attempt("futures_foreign_hist", code, days, TRUE, "fill", TRUE, t),
                  LAMBDA a : Res(a.series, a.t))

_fetch_precious_metal_em(code, name, days, t0) ==
    LET t == Enter("_fetch_precious_metal_em", t0)
        symbol == IF name \in {"gold", "london_gold"} \/ code = "XAU"
                  THEN "Au(T+D)" ELSE "Ag(T+D)"
    IN  Bind(Attempt("spot_golden_benchmark_sge", symbol, days, TRUE, "fill", FALSE, t),
             LAMBDA a : Res(a.series, a.t))

_fetch_precious_metal(code, days, t0) ==
    LET t == Enter("_fetch_precious_metal", t0)
        name == IF code = "XAU" THEN "gold" ELSE "silver"
    IN  IF code \notin {"XAU", "XAG"} THEN Res(None, t)
        ELSE Bind(Attempt("spot_hist_sge", IF code = "XAU" THEN "Au(T+D)" ELSE "Ag(T+D)",
                          days, TRUE, "fill", FALSE, t),
                  LAMBDA a :
                      IF a.digest = "series" THEN Res(a.series, a.t)
                      ELSE IF a.digest = "raise"
                           THEN _fetch_precious_metal_em(code, code, days, a.t)
                      ELSE _fetch_precious_metal_em(code, name, days, a.t))

_fetch_cn_index_standard(code, days, t0) ==
    LET t == Enter("_fetch_cn_index_standard", t0)
    IN  Bind(Attempt("index_zh_a_hist", code, days, FALSE, "require", FALSE, t),
             LAMBDA a : Res(a.series, a.t))

\* name: Some(name) or None. The board list is looked up first (its failure
\* is swallowed), then the board index is fetched by name
_fetch_ths_industry_index(code, name, days, t0) ==
    LET t == Enter("_fetch_ths_industry_index", t0)
    IN  Bind(Call("stock_board_industry_name_ths", "", t), LAMBDA list :
        Bind(IF list.outcome = "ok" THEN "ths_board_name" ELSE SymbolOf(name),
             LAMBDA ths_name :
        Bind(Attempt("stock_board_industry_index_ths", ths_name, days, FALSE, "require", FALSE,
                     list.t),
             LAMBDA a : Res(a.series, a.t))))

_fetch_em_industry_by_name(name, days, t0) ==
    LET t == Enter("_fetch_em_industry_by_name", t0)
    IN  Bind(Attempt("stock_board_industry_hist_em", SymbolOf(name), days, FALSE, "require",
                     FALSE, t),
             LAMBDA a : Res(a.series, a.t))

\* a resolver without the cascade: the standard provider whatever the code
_fetch_cn_index_standard_only(code, name, days, t0) ==
    _fetch_cn_index_standard(code, days, Enter("_fetch_cn_index", t0))

\* name: Some(name) or None
_fetch_cn_index(code, name, days, t0) ==
    LET t == Enter("_fetch_cn_index", t0)
    IN  IF StartsWith(code, "881")
        THEN Bind(_fetch_ths_industry_index(code, name, days, t), LAMBDA r :
                  IF r.series # None THEN r
                  ELSE _fetch_em_industry_by_name(name, days, r.t))
        ELSE IF StartsWith(code, "1B")
        THEN IF code \in {"1B0819", "1B0932"}
             THEN Bind(_fetch_cn_index_standard(em_code_map(code), days, t), LAMBDA r :
                       IF r.series # None THEN r
                       ELSE _fetch_em_industry_by_name(name, days, r.t))
             ELSE _fetch_em_industry_by_name(name, days, t)
        ELSE Bind(_fetch_cn_index_standard(code, days, t), LAMBDA r :
                  IF r.series # None THEN r
                  ELSE IF name # None THEN _fetch_em_industry_by_name(name, days, r.t)
                  ELSE Res(None, r.t))

_fetch_fx_precious_metal(code, name, days, t0) ==
    LET t == Enter("_fetch_fx_precious_metal", t0)
        symbol == IF code \in {"AGUSDO", "AUUSDO"}
                  THEN Some(IF code = "AGUSDO" THEN "XAG" ELSE "XAU")
                  ELSE IF name \in {"london_silver", "london_gold"}
                  THEN Some(IF name = "london_silver" THEN "XAG" ELSE "XAU")
                  ELSE None
    IN  IF symbol = None THEN Res(None, t)
        ELSE Bind(Attempt("currency_boc_sina", symbol[1], days, TRUE, "overwrite", FALSE, t),
                  LAMBDA a : Res(a.series, a.t))

_fetch_commodity_international(code, days, t0) ==
    LET t == Enter("_fetch_commodity_international", t0)
        name == IF code = "AGUSDO" THEN "london_silver" ELSE "london_gold"
    IN  IF code \notin {"AGUSDO", "AUUSDO"} THEN Res(None, t)
        ELSE Bind(Attempt(IF code = "AGUSDO" THEN "spot_silver_benchmark_sge"
                          ELSE "spot_golden_benchmark_sge", "", days, TRUE, "overwrite",
                          FALSE, t),
                  LAMBDA a :
                      IF a.digest = "series" THEN Res(a.series, a.t)
                      ELSE IF a.digest = "raise"
                           THEN _fetch_fx_precious_metal(code, code, days, a.t)
                      ELSE _fetch_fx_precious_metal(code, name, days, a.t))

_fetch_ths_index_alt(code, days, t0) ==
    LET t == Enter("_fetch_ths_index_alt", t0)
    IN  Bind(Attempt("stock_board_concept_hist_ths", code, days, FALSE, "fill", FALSE, t),
             LAMBDA a : Res(a.series, a.t))

_fetch_ths_index(code, days, t0) ==
    LET t == Enter("_fetch_ths_index", t0)
    IN  Bind(Attempt("index_zh_a_hist", code, days, FALSE, "require", FALSE, t), LAMBDA a :
             IF a.digest = "series" THEN Res(a.series, a.t)
             ELSE _fetch_ths_index_alt(code, days, a.t))

_fetch_international_commodity(code, name, days, t0) ==
    LET t == Enter("_fetch_international_commodity", t0)
        commodity_name == IF code \in {"AGUSDO", "AUUSDO"}
                          THEN IF code = "AGUSDO" THEN "silver" ELSE "gold"
                          ELSE IF name \in {"london_silver", "london_gold"}
                          THEN IF name = "london_silver" THEN "silver" ELSE "gold"
                          ELSE name
    IN  Bind(Attempt("futures_global_commodity_hist", commodity_name, days, TRUE, "fill", FALSE, t),
             LAMBDA a : Res(a.series, a.t))

_fetch_ths_commodity(code, days, t0) ==
    LET t == Enter("_fetch_ths_commodity", t0)
        symbol == IF code = "AGUSDO" THEN "XAG" ELSE "XAU"
        name == IF code = "AGUSDO" THEN "london_silver" ELSE "london_gold"
    IN  IF code \notin {"AGUSDO", "AUUSDO"} THEN Res(None, t)
        ELSE Bind(Attempt("futures_foreign_hist", symbol, days, TRUE, "fill", FALSE, t),
                  LAMBDA a :
                      IF a.digest = "series" THEN Res(a.series, a.t)
                      ELSE IF a.digest = "raise"
                           THEN _fetch_international_commodity(code, code, days, a.t)
                      ELSE _fetch_international_commodity(code, name, days, a.t))

\* a code map whose values are 1B codes themselves
code_map_to_1B(code) == "1B9999"

code_map(code) ==
    IF code = "1B0688" THEN "000688" ELSE IF code = "1B0852" THEN "000852"
    ELSE IF code = "1B0016" THEN "000016" ELSE "000932"

\* sector_name_map.get(code, code)
sector_name_map(code) ==
    IF code = "BK0447" THEN "semiconductor" ELSE IF code = "BK0478" THEN "nonferrous"
    ELSE IF code = "BK0549" THEN "media" ELSE IF code = "BK1040" THEN "aerospace"
    ELSE IF code = "BK0732" THEN "photovoltaic" ELSE IF code = "BK0493" THEN "power"
    ELSE code

\* the symbol _fetch_eastmoney_index_alt builds for stock_zh_index_daily_em
IndexDailySymbol(code) ==
    IF StartsWith(code, "39") \/ StartsWith(code, "00") THEN "sz" \o code
    ELSE IF StartsWith(code, "88") \/ StartsWith(code, "93") THEN "sz" \o code
    ELSE "sh" \o code

RECURSIVE _fetch_eastmoney_index(_, _, _)
RECURSIVE _fetch_eastmoney_index_alt(_, _, _)
_fetch_eastmoney_index_alt(code, days, t0) ==
    LET t == Enter("_fetch_eastmoney_index_alt", t0)
    IN  IF StartsWith(code, "1B") /\ code \in {"1B0688", "1B0852", "1B0016", "1B0932"}
        THEN _fetch_eastmoney_index(code_map(code), days, t)
        ELSE Bind(Attempt("stock_zh_index_daily_em", IndexDailySymbol(code), days, TRUE,
                          "require", FALSE, t),
                  LAMBDA a : Res(a.series, a.t))

_fetch_eastmoney_index(code, days, t0) ==
    LET t == Enter("_fetch_eastmoney_index", t0)
    IN  Bind(Attempt("index_zh_a_hist", code, days, FALSE, "require", FALSE, t), LAMBDA a :
             IF a.digest = "series" THEN Res(a.series, a.t)
             ELSE _fetch_eastmoney_index_alt(code, days, a.t))

_fetch_eastmoney_sector(code, days, t0) ==
    LET t == Enter("_fetch_eastmoney_sector", t0)
    IN  Bind(Attempt("stock_board_industry_hist_em", sector_name_map(code), days, FALSE,
                     "require", FALSE, t),
             LAMBDA a : Res(a.series, a.t))

_fetch_hk_index_sina(code, days, t0) ==
    LET t == Enter("_fetch_hk_index_sina", t0)
    IN  Bind(Attempt("stock_hk_index_daily_sina", code, days, TRUE, "fill", FALSE, t),
             LAMBDA a : Res(a.series, a.t))

_fetch_hk_index(code, days, t0) ==
    LET t == Enter("_fetch_hk_index", t0)
    IN  Bind(Attempt("stock_hk_index_daily_em", code, days, TRUE, "fill", FALSE, t), LAMBDA a :
             IF a.digest = "series" THEN Res(a.series, a.t)
             ELSE _fetch_hk_index_sina(code, days, a.t))

_fetch_us_index_alt(code, days, t0) ==
    LET t == Enter("_fetch_us_index_alt", t0)
    IN  IF code \notin {"SPX", "NDX"} THEN Res(None, t)
        ELSE Bind(Attempt("index_global_from_sina",
                          IF code = "SPX" THEN "sp500" ELSE "nasdaq", days, FALSE,
                          "require", FALSE, t),
                  LAMBDA a : Res(a.series, a.t))

_fetch_us_index(code, days, t0) ==
    LET t == Enter("_fetch_us_index", t0)
        symbol == IF code = "SPX" THEN ".INX" ELSE IF code = "NDX" THEN ".NDX" ELSE code
    IN  Bind(Attempt("index_us_stock_sina", symbol, days, TRUE, "require", FALSE, t), LAMBDA a :
             IF a.digest = "series" THEN Res(a.series, a.t)
             ELSE _fetch_us_index_alt(code, days, a.t))

_fetch_jp_index(code, days, t0) ==
    LET t == Enter("_fetch_jp_index", t0)
    IN  IF code # "N225" THEN Res(None, t)
        ELSE Bind(Attempt("index_global_hist_em", "nikkei225", days, TRUE, "fill", TRUE, t),
                  LAMBDA a : Res(a.series, a.t))

_fetch_commodity_alt(code, name, days, t0) ==
    LET t == Enter("_fetch_commodity_alt", t0)
        symbol == IF code = "AGUSDO" \/ (code # "AUUSDO" /\ name = "silver")
                  THEN Some("Ag(T+D)")
                  ELSE IF code = "AUUSDO" \/ name = "gold" THEN Some("Au(T+D)")
                  ELSE None
    IN  IF symbol = None THEN Res(None, t)
        ELSE Bind(Attempt("spot_hist_sge", symbol[1], days, TRUE, "require", FALSE, t),
                  LAMBDA a : Res(a.series, a.t))

_fetch_commodity(code, days, t0) ==
    LET t == Enter("_fetch_commodity", t0)
    IN  IF code \notin {"AGUSDO", "AUUSDO"} THEN Res(None, t)
        ELSE _fetch_commodity_alt(code, IF code = "AGUSDO" THEN "silver" ELSE "gold",
                                  days, t)

\* a dispatch whose last branch falls back to the eastmoney chain
Dispatch_default_eastmoney(code, source, name, days, t) ==
    IF source = "cn_index" THEN _fetch_cn_index(code, name, days, t)
    ELSE IF source = "spot_price" THEN _fetch_spot_price(code, days, t)
    ELSE IF source = "precious_metal" THEN _fetch_precious_metal(code, days, t)
    ELSE IF source = "commodity_international"
         THEN _fetch_commodity_international(code, days, t)
    ELSE IF source = "ths" THEN _fetch_ths_index(code, days, t)
    ELSE IF source = "ths_commodity" THEN _fetch_ths_commodity(code, days, t)
    ELSE IF source = "eastmoney" THEN _fetch_eastmoney_index(code, days, t)
    ELSE IF source = "eastmoney_sector" THEN _fetch_eastmoney_sector(code, days, t)
    ELSE IF source = "hk" THEN _fetch_hk_index(code, days, t)
    ELSE IF source = "us" THEN _fetch_us_index(code, days, t)
    ELSE IF source = "jp" THEN _fetch_jp_index(code, days, t)
    ELSE IF source = "commodity" THEN _fetch_commodity(code, days, t)
    ELSE _fetch_eastmoney_index(code, days, t)

\* the strategy function fetch_index dispatches to
Dispatch(code, source, name, days, t) ==
    IF source = "cn_index" THEN _fetch_cn_index(code, name, days, t)
    ELSE IF source = "spot_price" THEN _fetch_spot_price(code, days, t)
    ELSE IF source = "precious_metal" THEN _fetch_precious_metal(code, days, t)
    ELSE IF source = "commodity_international"
         THEN _fetch_commodity_international(code, days, t)
    ELSE IF source = "ths" THEN _fetch_ths_index(code, days, t)
    ELSE IF source = "ths_commodity" THEN _fetch_ths_commodity(code, days, t)
    ELSE IF source = "eastmoney" THEN _fetch_eastmoney_index(code, days, t)
    ELSE IF source = "eastmoney_sector" THEN _fetch_eastmoney_sector(code, days, t)
    ELSE IF source = "hk" THEN _fetch_hk_index(code, days, t)
    ELSE IF source = "us" THEN _fetch_us_index(code, days, t)
    ELSE IF source = "jp" THEN _fetch_jp_index(code, days, t)
    ELSE IF source = "commodity" THEN _fetch_commodity(code, days, t)
    ELSE Res(None, t)

\* fetch_index: what the caller gets (raised: an exception reached the
\* caller), with the trace of the fetch
fetch_index(code, source, name, days) ==
    Bind(Dispatch(code, source, name, days, NoTrace), LAMBDA r :
         [raised |-> FALSE, series |-> r.series, t |-> r.t])

----------------------------------------------------------------------------
(* Live pipeline (main.py, main) *)

is_trading_day(d) == Weekday(d) < 5

get_last_trading_day(today) ==
    IF Weekday(today) = 0 THEN today - 3
    ELSE IF Weekday(today) = 5 THEN today - 1
    ELSE IF Weekday(today) = 6 THEN today - 2
    ELSE today - 1

\* yesterday_rank - result["rank"], or None
RankDelta(yesterday_rank, rank) ==
    IF yesterday_rank # None THEN Some(yesterday_rank[1] - rank[1]) ELSE None

\* the rank-change loop of main() over one group
LiveRankChange(results, data, index_type) ==
    [i \in 1..Len(results) |->
        [results[i] EXCEPT !.rank_change =
            IF results[i].error = None
            THEN RankDelta(get_yesterday_rank(data, results[i].code, index_type),
                           results[i].rank)
            ELSE None]]

\* {r["code"]: r["rank"] for r in results if not r.get("error")}
RanksOf(results) ==
    LET ok == {i \in 1..Len(results) : results[i].error = None}
    IN  [c \in {results[i].code : i \in ok} |->
            results[CHOOSE i \in ok : results[i].code = c].rank[1]]

FailedCount(results) == Cardinality({i \in 1..Len(results) : results[i].error # None})

\* what one day's data makes of an instrument: a fetch failure, or a Metrics
\* Snapshot with a deviation or with an error
Quote(dev) == [kind |-> "metrics", dev |-> Some(dev)]
Short == [kind |-> "metrics", dev |-> None]
Failed == [kind |-> "fetch_failed", dev |-> None]

Entry(code, cell) ==
    IF cell.kind = "fetch_failed" THEN FetchFailedItem(code)
    ELSE MetricsItem(code, SnapshotOf(cell.dev))

Entries(codes, table) == [i \in 1..Len(codes) |-> Entry(codes[i], table[codes[i]])]

Majors == <<"000300", "399006">>
Sectors == <<"881101">>

Exit(how) == [exit |-> how, data |-> None, run |-> None]

\* main() from the rank-change loop to update_today
RecordRun(mode, check_date, data_date, ranking_store, major_results, sector_results) ==
    LET record_date == IF mode = "morning" THEN check_date - 1 ELSE check_date
        major == LiveRankChange(major_results, ranking_store, "major_indices")
        sector == LiveRankChange(sector_results, ranking_store, "sector_indices")
        major_ranks == RanksOf(major)
        sector_ranks == RanksOf(sector)
    IN  [exit |-> "done",
         data |-> Some(update_today(ranking_store, record_date, major_ranks, sector_ranks)),
         run |-> Some([record_date |-> record_date, data_date |-> data_date,
                       prior |-> ranking_store,
                       major_ranks |-> major_ranks, sector_ranks |-> sector_ranks,
                       major |-> major, sector |-> sector])]

\* df["date"].max() of a frame with rows
get_latest_date(rows) == CHOOSE d \in {rows[i].date : i \in 1..Len(rows)} :
                            \A i \in 1..Len(rows) : rows[i].date <= d

\* main(): mkt is what the providers hold, file the ledger file. The date
\* check fetches 000300 under the designator "cs_index"
main(mode, force, check_date, mkt, file) ==
    IF mode = "morning" /\ ~force /\ ~is_trading_day(check_date - 1) THEN Exit("skipped")
    ELSE IF mode = "evening" /\ ~force /\ Weekday(check_date) >= 5 THEN Exit("skipped")
    ELSE
    LET latest == mkt[Len(mkt)]
        major_results == RankEntries(Entries(Majors, latest.table))
        sector_results == RankEntries(Entries(Sectors, latest.table))
        hs300_ok == \E i \in 1..Len(major_results.value[1]) :
                       /\ major_results.value[1][i].code = "000300"
                       /\ major_results.value[1][i].error = None
        df_ == fetch_index("000300", "cs_index", None, 5).series
        stale == IF df_ = None \/ df_[1].rows = <<>> THEN FALSE
                 ELSE IF mode = "morning"
                      THEN get_latest_date(df_[1].rows) < get_last_trading_day(check_date)
                      ELSE get_latest_date(df_[1].rows) < check_date
    IN  IF major_results.raised THEN Exit("raised")
        ELSE IF ~force /\ hs300_ok /\ stale THEN Exit("skipped")
        ELSE IF sector_results.raised THEN Exit("raised")
        ELSE
        LET total_indices == Len(major_results.value[1]) + Len(sector_results.value[1])
            failed_count == FailedCount(major_results.value[1])
                              + FailedCount(sector_results.value[1])
        IN  IF total_indices > 0 /\ failed_count * 3 > total_indices THEN Exit("aborted")
            ELSE IF failed_count = total_indices THEN Exit("aborted")
            ELSE RecordRun(mode, check_date, latest.date, load(file),
                           major_results.value[1], sector_results.value[1])

----------------------------------------------------------------------------
(* Backfill (backfill_archive.py, main): rank changes across replayed days *)

\* the rank-change loop of the backfill over one group
BackfillRankChange(results, prev_ranks) ==
    [i \in 1..Len(results) |->
        IF results[i].error = None
        THEN [results[i] EXCEPT !.rank_change =
                 RankDelta(Get(prev_ranks, results[i].code), results[i].rank)]
        ELSE results[i]]

\* one iteration of the per-date loop on the state b of the backfill
ReplayDate(b) ==
    LET day == b.cache[b.i + 1]
        major == BackfillRankChange(sort_by_deviation(Entries(Majors, day.table)),
                                    b.prev_major_ranks)
        sector == BackfillRankChange(sort_by_deviation(Entries(Sectors, day.table)),
                                     b.prev_sector_ranks)
    IN  [b EXCEPT !.i = @ + 1,
                  !.prev_major_ranks = RanksOf(major),
                  !.prev_sector_ranks = RanksOf(sector),
                  !.out = Append(@, [date |-> day.date, major |-> major, sector |-> sector])]

----------------------------------------------------------------------------
(* The live pipeline and the backfill over the same days *)

High == Frac(300, 197)
Mid == Frac(0, 200)
Low == Frac(-100, 181)

Table(a, b, c) == [code \in {"000300", "399006", "881101"} |->
                      IF code = "000300" THEN a ELSE IF code = "399006" THEN b ELSE c]

\* the days' outcomes the model draws from
Tables ==
    { Table(Quote(High), Quote(Mid), Quote(Mid)),
      Table(Quote(Low), Quote(Mid), Quote(Mid)),
      Table(Quote(Low), Failed, Quote(Mid)),
      Table(Quote(High), Short, Quote(Mid)),
      Table(Failed, Quote(Mid), Failed) }

LastDay == FirstDay + MaxDays - 1

\* midnight
Tick ==
    /\ clock < LastDay
    /\ clock' = clock + 1
    /\ UNCHANGED <<market, store, liveLog, bf>>

\* the providers publish the close of a trading day
Publish ==
    /\ is_trading_day(clock)
    /\ IF market = <<>> THEN TRUE ELSE market[Len(market)].date < clock
    /\ \E t \in Tables : market' = Append(market, [date |-> clock, table |-> t])
    /\ UNCHANGED <<clock, store, liveLog, bf>>

\* one run of main.py
Main ==
    /\ market # <<>>
    /\ Len(liveLog) < MaxRuns
    /\ \E mode \in {"morning", "evening"}, force \in BOOLEAN :
       \E r \in {main(mode, force, clock, market, store)} :
         IF r.exit = "done"
         THEN store' = Some(r.data[1]) /\ liveLog' = Append(liveLog, r.run[1])
         ELSE UNCHANGED <<store, liveLog>>
    /\ UNCHANGED <<clock, market, bf>>

\* backfill main() up to the per-date loop
BackfillStart ==
    /\ bf = None
    /\ market # <<>>
    /\ bf' = Some([cache |-> market, i |-> 0, prev_major_ranks |-> EmptyDict,
                   prev_sector_ranks |-> EmptyDict, out |-> <<>>])
    /\ UNCHANGED <<clock, market, store, liveLog>>

\* backfill main(): one iteration of the per-date loop
BackfillDay ==
    /\ bf # None
    /\ bf[1].i < Len(bf[1].cache)
    /\ bf' = Some(ReplayDate(bf[1]))
    /\ UNCHANGED <<clock, market, store, liveLog>>

RankInit == CalcIdle /\ SortIdle /\ BackIdle /\ RankIdle /\ FetchIdle /\ RunIdle /\ CtorIdle

RankNext ==
    (Tick \/ Publish \/ Main \/ BackfillStart \/ BackfillDay)
        /\ UNCHANGED <<calcVars, sortVars, backVars, fetchVars, runVars, ctorVars>>

SpecRank == RankInit /\ [][RankNext]_vars

LedgerNext ==
    (Tick \/ Publish \/ Main) /\ UNCHANGED <<calcVars, sortVars, backVars, fetchVars, runVars, ctorVars>>

SpecLedger == RankInit /\ [][LedgerNext]_vars

IndexType(group) == IF group = "major" THEN "major_indices" ELSE "sector_indices"

\* the first k runs of main.py were one per trading day, in order, each on its
\* day's data and recorded under its day
OncePerDay(k) ==
    /\ k <= Len(liveLog)
    /\ \A j \in 1..k : /\ liveLog[j].record_date = market[j].date
                       /\ liveLog[j].data_date = market[j].date

RankChangeOf(results, code) ==
    results[CHOOSE i \in 1..Len(results) : results[i].code = code].rank_change

IsoBefore(a, b) ==
    \/ a[1] < b[1]
    \/ a[1] = b[1] /\ a[2] < b[2]
    \/ a[1] = b[1] /\ a[2] = b[2] /\ a[3] < b[3]

\* the generation of the ledger with the most recent date, None in an empty ledger
MostRecent(data) ==
    IF data.today = None THEN data.yesterday
    ELSE IF data.yesterday = None THEN data.today
    ELSE IF IsoBefore(data.today[1].date, data.yesterday[1].date) THEN data.yesterday
    ELSE data.today

PriorRank(data, code, index_type) ==
    IF MostRecent(data) = None THEN None
    ELSE Get(MostRecent(data)[1][index_type], code)

InLedger(data, date_str) ==
    \/ data.today # None /\ data.today[1].date = date_str
    \/ data.yesterday # None /\ data.yesterday[1].date = date_str

\* C7: in a run of main.py whose record date is not yet in the ledger, a
\* non-error instrument's rank_change is the rank persisted for it on the most
\* recent recorded date minus its current rank, null when there is no such
\* rank; an error instrument's rank_change is null.
C7_RankChangeFromMostRecentDate ==
    \A k \in 1..Len(liveLog) :
        ~InLedger(liveLog[k].prior, isoformat(liveLog[k].record_date)) =>
            \A group \in {"major", "sector"} :
            \A i \in 1..Len(liveLog[k][group]) :
                liveLog[k][group][i].rank_change
                    = IF liveLog[k][group][i].error = None
                      THEN RankDelta(PriorRank(liveLog[k].prior, liveLog[k][group][i].code,
                                               IndexType(group)),
                                     liveLog[k][group][i].rank)
                      ELSE None

\* the ledger after the k-th recorded run: what the next run loaded, or the file
LedgerAfter(k) == IF k < Len(liveLog) THEN liveLog[k + 1].prior ELSE load(store)

SameDateCall(k) ==
    /\ liveLog[k].prior.today # None
    /\ liveLog[k].prior.today[1].date = isoformat(liveLog[k].record_date)

\* C8: update_today(date, ...) moves 'today' into 'yesterday' and starts a new
\* 'today' exactly when there is no 'today' or its date differs from date;
\* when the date is the stored one, only today's two rank maps are replaced
\* and 'yesterday' stays as it was, however often the call is repeated.
C8_RotationOnlyOnNewDate ==
    \A k \in 1..Len(liveLog) :
        IF SameDateCall(k)
        THEN /\ LedgerAfter(k).yesterday = liveLog[k].prior.yesterday
             /\ LedgerAfter(k).today
                  = Some(NewGeneration(liveLog[k].prior.today[1].date,
                                       liveLog[k].major_ranks, liveLog[k].sector_ranks))
        ELSE /\ LedgerAfter(k).yesterday = liveLog[k].prior.today
             /\ LedgerAfter(k).today
                  = Some(NewGeneration(isoformat(liveLog[k].record_date),
                                       liveLog[k].major_ranks, liveLog[k].sector_ranks))

\* a repeated call for the stored date, with new rank maps, on a ledger whose
\* 'yesterday' holds an earlier date's ranks; and a rotating call before it
C8_Witness ==
    \E k \in 2..Len(liveLog) :
        /\ SameDateCall(k)
        /\ ~SameDateCall(k - 1)
        /\ liveLog[k].prior.yesterday # None
        /\ liveLog[k].major_ranks # liveLog[k].prior.today[1].major_indices

----------------------------------------------------------------------------
(* One fetch_index call against providers whose behaviour is drawn freely *)

Sources ==
    {"cn_index", "spot_price", "precious_metal", "commodity_international", "ths",
     "ths_commodity", "eastmoney", "eastmoney_sector", "hk", "us", "jp", "commodity"}

\* (source, code) pairs: for each source a code its tables hold and one they
\* do not; "cs_index" is the designator backfill_archive.py and main.py pass
\* for 000300, which fetch_index does not know
Instruments ==
    { <<"cn_index", "881101">>, <<"cn_index", "1B0819">>, <<"cn_index", "1B0688">>,
      <<"cn_index", "000300">>,
      <<"spot_price", "XAU">>, <<"spot_price", "AUUSDO">>,
      <<"precious_metal", "XAU">>, <<"precious_metal", "AUUSDO">>,
      <<"commodity_international", "AUUSDO">>, <<"commodity_international", "XAU">>,
      <<"ths", "000300">>,
      <<"ths_commodity", "AGUSDO">>, <<"ths_commodity", "XAG">>,
      <<"eastmoney", "000300">>, <<"eastmoney", "1B0688">>, <<"eastmoney", "1B0819">>,
      <<"eastmoney_sector", "BK0447">>, <<"eastmoney_sector", "BK9999">>,
      <<"hk", "HSI">>,
      <<"us", "SPX">>, <<"us", "DJI">>,
      <<"jp", "N225">>, <<"jp", "TOPIX">>,
      <<"commodity", "AGUSDO">>, <<"commodity", "XAG">>,
      <<"cs_index", "000300">> }

Names == {None, Some("display_name")}

\* days: main.py asks for 5 and 800 bars, backfill_archive.py for 400, the default is 300
Days == {5, 300}

Requests ==
    { [source |-> i[1], code |-> i[2], name |-> n, days |-> d] :
        i \in Instruments, n \in Names, d \in Days }

FetchIndex ==
    /\ fetchRes = None
    /\ fetchRes' = Some(fetch_index(request.code, request.source, request.name, request.days))
    /\ UNCHANGED <<request, env>>

FetchInit ==
    /\ CalcIdle /\ SortIdle /\ BackIdle /\ RankIdle /\ RunIdle /\ CtorIdle
    /\ request \in Requests
    /\ env \in [1..MaxCalls -> Outcomes]
    /\ fetchRes = None

FetchNext == FetchIndex /\ UNCHANGED <<calcVars, sortVars, backVars, rankVars, runVars, ctorVars>>

SpecFetch == FetchInit /\ [][FetchNext]_vars

Range(s) == {s[i] : i \in 1..Len(s)}

\* the strategies of the chain fetch_index selects for a source, in order
ChainOf(source, code) ==
    IF source = "cn_index"
    THEN IF StartsWith(code, "881")
         THEN <<"_fetch_ths_industry_index", "_fetch_em_industry_by_name">>
         ELSE <<"_fetch_cn_index_standard", "_fetch_em_industry_by_name">>
    ELSE IF source = "spot_price" THEN <<"_fetch_spot_price">>
    ELSE IF source = "precious_metal"
         THEN <<"_fetch_precious_metal", "_fetch_precious_metal_em">>
    ELSE IF source = "commodity_international"
         THEN <<"_fetch_commodity_international", "_fetch_fx_precious_metal">>
    ELSE IF source = "ths" THEN <<"_fetch_ths_index", "_fetch_ths_index_alt">>
    ELSE IF source = "ths_commodity"
         THEN <<"_fetch_ths_commodity", "_fetch_international_commodity">>
    ELSE IF source = "eastmoney"
         THEN <<"_fetch_eastmoney_index", "_fetch_eastmoney_index_alt">>
    ELSE IF source = "eastmoney_sector" THEN <<"_fetch_eastmoney_sector">>
    ELSE IF source = "hk" THEN <<"_fetch_hk_index", "_fetch_hk_index_sina">>
    ELSE IF source = "us" THEN <<"_fetch_us_index", "_fetch_us_index_alt">>
    ELSE IF source = "jp" THEN <<"_fetch_jp_index">>
    ELSE IF source = "commodity" THEN <<"_fetch_commodity", "_fetch_commodity_alt">>
    ELSE <<>>

\* C9: fetch_index never raises to its caller, whatever the providers do
\* (exception, empty result, missing field), and when it returns null every
\* strategy in the chain of the selected source has been attempted.
C9_NullOnlyAfterWholeChain ==
    fetchRes # None =>
        /\ ~fetchRes[1].raised
        /\ (fetchRes[1].series = None /\ request.source \in Sources) =>
              Range(ChainOf(request.source, request.code)) \subseteq Range(fetchRes[1].t.tried)

\* the first and the second provider of the chains of sources hk and us
PrimaryProvider == IF request.source = "hk" THEN "stock_hk_index_daily_em"
                   ELSE "index_us_stock_sina"
SecondaryProvider == IF request.source = "hk" THEN "stock_hk_index_daily_sina"
                     ELSE "index_global_from_sina"

CallsTo(provider) ==
    {i \in 1..Len(fetchRes[1].t.calls) : fetchRes[1].t.calls[i].provider = provider}

\* the primary raises a timeout at every call, the secondary returns its
\* ProviderBars-bar frame, and at least that many bars are asked for
FallbackScenario ==
    /\ fetchRes # None
    /\ <<request.source, request.code>> \in {<<"hk", "HSI">>, <<"us", "SPX">>}
    /\ request.days >= ProviderBars
    /\ \A i \in CallsTo(PrimaryProvider) : env[i] = "timeout"
    /\ \A i \in 1..MaxCalls : i \notin CallsTo(PrimaryProvider) => env[i] = "ok"

\* C10: in the fallback scenario the fetch returns exactly the secondary's
\* bars, and the primary is called retry budget + 1 times (its first call
\* and at least one retry), every one of them before the first call to the
\* secondary.
C10_PrimaryRetriedThenFallback ==
    FallbackScenario =>
        /\ fetchRes[1].series # None
        /\ fetchRes[1].series[1].provider = SecondaryProvider
        /\ fetchRes[1].series[1].rows = ProviderRows
        /\ Cardinality(CallsTo(PrimaryProvider)) >= 2
        /\ \A i \in CallsTo(PrimaryProvider) :
           \A j \in CallsTo(SecondaryProvider) : i < j

\* the provider calls of the fetch that raised an error outside the
\* recoverable class
FatalCalls == {i \in 1..Len(fetchRes[1].t.calls) : env[i] = "fatal"}

\* C11: when a provider call raises an error outside the recoverable class,
\* the error reaches the caller of fetch_index: no result (series or null) is
\* returned, and no provider is called after the call that raised (no retry,
\* no fallback).
C11_UnrecoverableErrorPropagates ==
    (fetchRes # None /\ FatalCalls # {}) =>
        /\ fetchRes[1].raised
        /\ \A i \in FatalCalls : i = Len(fetchRes[1].t.calls)

\* C12: for a source designator that is none of the recognised ones,
\* fetch_index returns null without raising, without calling any provider
\* and without entering any strategy.
C12_UnknownSourceImmediateNull ==
    (fetchRes # None /\ request.source \notin Sources) =>
        /\ ~fetchRes[1].raised
        /\ fetchRes[1].series = None
        /\ fetchRes[1].t.calls = <<>>
        /\ fetchRes[1].t.tried = <<>>

C12_Witness ==
    /\ fetchRes # None
    /\ request.source \notin Sources
    /\ \E i \in 1..MaxCalls : env[i] = "ok"

\* the rows of the frame the returned series was made from: the frame of the
\* last provider call of the fetch
SourceRows ==
    ProviderFrame("", "", env[Len(fetchRes[1].t.calls)]).rows

\* the dates of the source rows whose close parses
ParsedDates == {SourceRows[i].date : i \in {k \in 1..Len(SourceRows) : SourceRows[k].close # NaN}}

\* C13: every non-null series fetch_index returns has strictly increasing
\* (hence unique) dates, has no bar whose close failed to parse, has at most
\* the requested number of bars, and its dates are the most recent dates of
\* the provider's rows with a parsed close.
C13_CanonicalSeries ==
    (fetchRes # None /\ fetchRes[1].series # None) =>
        LET rows == fetchRes[1].series[1].rows
            dates == {rows[i].date : i \in 1..Len(rows)}
        IN  /\ \A i \in 1..(Len(rows) - 1) : rows[i].date < rows[i + 1].date
            /\ \A i \in 1..Len(rows) : rows[i].close # NaN
            /\ Len(rows) <= request.days
            /\ dates \subseteq ParsedDates
            /\ Cardinality(dates) = Min2(request.days, Cardinality(ParsedDates))
            /\ \A d \in ParsedDates \ dates : \A e \in dates : d < e

\* the provider calls of the fetch that returned a price frame with the date
\* and close columns but without open, high and low
BareCalls ==
    {i \in 1..Len(fetchRes[1].t.calls) :
        /\ env[i] = "no_optional"
        /\ fetchRes[1].t.calls[i].provider # "stock_board_industry_name_ths"}

\* C14: when a provider returns a frame with date and close but without
\* open, high, low and volume, the strategy returns a series made from that
\* frame in which open, high and low equal close and volume is present and
\* zero; it neither fails over nor returns a series without those fields.
C14_MissingOptionalBackfilled ==
    (fetchRes # None /\ BareCalls # {}) =>
        /\ fetchRes[1].series # None
        /\ BareCalls = {Len(fetchRes[1].t.calls)}
        /\ LET series == fetchRes[1].series[1]
           IN  /\ {"open", "high", "low", "volume"} \subseteq series.cols
               /\ \A i \in 1..Len(series.rows) :
                     /\ series.rows[i].open = series.rows[i].close
                     /\ series.rows[i].high = series.rows[i].close
                     /\ series.rows[i].low = series.rows[i].close

----------------------------------------------------------------------------
(* One run of main.py on a day, a day's data and a ledger file drawn freely *)

Cells == {Quote(High), Quote(Mid), Quote(Low), Short, Failed}

AllTables == {Table(a, b, c) : a \in Cells, b \in Cells, c \in Cells}

\* the ledger file an earlier run left on the day before FirstDay
PriorFile ==
    Some(update_today(load(None), FirstDay - 1,
                      [c \in {"000300", "399006"} |-> IF c = "000300" THEN 1 ELSE 2],
                      [c \in {"881101"} |-> 1]))

\* the days a run may happen on: the days followed, and the weekend after
RunDays == FirstDay..(LastDay + 2)

MainJobs ==
    { [entry |-> "main", mode |-> m, force |-> f, check_date |-> d,
       mkt |-> <<[date |-> d - 1, table |-> t]>>, file |-> file] :
        m \in {"morning", "evening"}, f \in BOOLEAN, d \in RunDays,
        t \in AllTables, file \in {None, PriorFile} }

\* one run of main.py, from its first statement to its exit
MainOnce ==
    /\ job.entry = "main"
    /\ runRes = None
    /\ runRes' = Some(main(job.mode, job.force, job.check_date, job.mkt, job.file))
    /\ UNCHANGED job

RunInit ==
    /\ CalcIdle /\ SortIdle /\ BackIdle /\ RankIdle /\ FetchIdle /\ CtorIdle
    /\ job \in MainJobs
    /\ runRes = None

RunNext == MainOnce /\ UNCHANGED <<calcVars, sortVars, backVars, rankVars, fetchVars, ctorVars>>

SpecRun == RunInit /\ [][RunNext]_vars

\* the instruments of the run, and those whose entry carries an error (a
\* failed fetch or a series too short for MA20)
Tracked == {Majors[i] : i \in 1..Len(Majors)} \cup {Sectors[i] : i \in 1..Len(Sectors)}
InError(table) == {c \in Tracked : table[c].kind = "fetch_failed" \/ table[c].dev = None}

\* the run is not one the calendar check at the top of main() skips
Processes(j) ==
    \/ j.force
    \/ j.mode = "morning" /\ is_trading_day(j.check_date - 1)
    \/ j.mode = "evening" /\ Weekday(j.check_date) < 5

\* the instruments the generated pages list with an error
ListedInError(run) ==
    {run.major[i].code : i \in {k \in 1..Len(run.major) : run.major[k].error # None}}
        \cup {run.sector[i].code : i \in {k \in 1..Len(run.sector) : run.sector[k].error # None}}

\* C15: a run in which more than one third of the instruments (major plus
\* sector) carry an error, or all of them, ends without writing the ledger
\* and without generating a page; a run in which at most one third carry an
\* error writes the ledger and generates the pages, the failed instruments
\* among the entries.
C15_SystemicFailureAborts ==
    (runRes # None /\ job.entry = "main" /\ Processes(job)) =>
        LET failed == Cardinality(InError(job.mkt[1].table))
            total == Cardinality(Tracked)
        IN  IF failed * 3 > total \/ failed = total
            THEN runRes[1].exit # "done" /\ runRes[1].data = None /\ runRes[1].run = None
            ELSE /\ runRes[1].exit = "done"
                 /\ runRes[1].data # None
                 /\ ListedInError(runRes[1].run[1]) = InError(job.mkt[1].table)

----------------------------------------------------------------------------
(* process_indices on one group whose fetched series are drawn freely *)

Group == <<"A", "B", "C">>

\* a series of 20 bars: the 19 sparse bars and one more trading day
TwentyBars(base, close) ==
    Append(InitialSeries(base),
           Bar(NextTradingDay(InitialSeries(base)[19].date), close, base))

\* what fetch_index may return for an instrument: None, 19 bars, or 20 bars
FetchedSeries ==
    {None} \cup {Some(InitialSeries(base)) : base \in BasePrices}
           \cup {Some(TwentyBars(base, c)) : base \in BasePrices, c \in Prices}

GroupJobs ==
    { [entry |-> "process_indices", fetched |-> f, lookback |-> DEFAULT_LOOKBACK] :
        f \in [{Group[i] : i \in 1..Len(Group)} -> FetchedSeries] }

\* process_indices(fetcher, calculator, indices, force) on the group
ProcessIndices ==
    /\ job.entry = "process_indices"
    /\ runRes = None
    /\ runRes' = Some(process_indices(Group, job.fetched, job.lookback))
    /\ UNCHANGED job

GroupInit ==
    /\ CalcIdle /\ SortIdle /\ BackIdle /\ RankIdle /\ FetchIdle /\ CtorIdle
    /\ job \in GroupJobs
    /\ runRes = None

GroupNext == ProcessIndices /\ UNCHANGED <<calcVars, sortVars, backVars, rankVars, fetchVars, ctorVars>>

SpecGroup == GroupInit /\ [][GroupNext]_vars

\* the instruments of the group by the length of their fetched series
TooShort(f) == {c \in DOMAIN f : f[c] # None /\ Len(f[c][1]) < MA_WINDOW}
LongEnough(f) == {c \in DOMAIN f : f[c] # None /\ Len(f[c][1]) >= MA_WINDOW}

EntryOf(results, code) == results[CHOOSE i \in 1..Len(results) : results[i].code = code]

\* C16: when an instrument of the group has fewer than 20 fetched bars,
\* process_indices still returns: that instrument's snapshot carries the
\* data-insufficiency error and no computed metric field, and every
\* instrument of the group is in the result with a rank, those with 20 bars
\* or more with their deviation and a rank ahead of every error entry.
C16_InsufficiencyIsolated ==
    (runRes # None /\ job.entry = "process_indices" /\ TooShort(job.fetched) # {}) =>
        /\ ~runRes[1].raised
        /\ LET results == runRes[1].value[1]
           IN  /\ Len(results) = Len(Group)
               /\ \A c \in DOMAIN job.fetched : \E i \in 1..Len(results) :
                     results[i].code = c /\ results[i].rank = Some(i)
               /\ \A c \in TooShort(job.fetched) :
                     EntryOf(results, c).snapshot
                         = Some([EmptyMetrics EXCEPT !.error = Some("data_insufficient")])
               /\ \A c \in LongEnough(job.fetched) :
                     /\ EntryOf(results, c).error = None
                     /\ EntryOf(results, c).deviation # None
                     /\ EntryOf(results, c).rank[1] <= Cardinality(LongEnough(job.fetched))

----------------------------------------------------------------------------
(* The Backfill Simulator on one target date and two full series that hold *)
(* the same bars up to that date                                           *)

MaxAfter == 2          \* bars a full series holds after the target date

AfterPrices == {9, 11}

Pair == <<"A", "B">>

\* the series d followed by one trading day per close
ExtendBy(d, closes) ==
    LET F[i \in 0..Len(closes)] ==
            IF i = 0 THEN d
            ELSE Append(F[i - 1], Bar(NextTradingDay(F[i - 1][Len(F[i - 1])].date),
                                      closes[i], F[i - 1][Len(F[i - 1])].close))
    IN  F[Len(closes)]

\* the bars up to the target date: 20 bars ending on Friday 2019-09-27, or
\* those and the six trading days up to Monday 2019-10-07, which complete
\* the 20th week of the series
UpToTarget ==
    {TwentyBars(base, c) : base \in BasePrices, c \in Prices}
        \cup {ExtendBy(TwentyBars(base, c), [i \in 1..6 |-> c2]) :
                 base \in BasePrices, c \in Prices, c2 \in Prices}

AfterTarget == UNION {[1..n -> AfterPrices] : n \in 0..MaxAfter}

ReplayJobs ==
    { [entry |-> "replay", target_date |-> common[Len(common)].date,
       first |-> ExtendBy(common, a1), second |-> ExtendBy(common, a2), other |-> o] :
        common \in UpToTarget, a1 \in [1..MaxAfter -> AfterPrices], a2 \in AfterTarget,
        o \in {None, Some(TwentyBars(9, 10)), Some(TwentyBars(10, 11))} }

\* data_cache as main() preloads it when the provider holds full for A
CacheFor(full, other) ==
    [code \in {"A", "B"} |->
        CacheEntry(IF code = "A" THEN FetchedTail(full, BACKFILL_DAYS) ELSE other)]

\* process_indices_at_date for the target date, on each of the two caches
Replay ==
    /\ job.entry = "replay"
    /\ runRes = None
    /\ runRes' = Some([first |-> process_indices_at_date(
                                    Pair, CacheFor(job.first, job.other),
                                    job.target_date, DEFAULT_LOOKBACK),
                       second |-> process_indices_at_date(
                                     Pair, CacheFor(job.second, job.other),
                                     job.target_date, DEFAULT_LOOKBACK)])
    /\ UNCHANGED job

ReplayInit ==
    /\ CalcIdle /\ SortIdle /\ BackIdle /\ RankIdle /\ FetchIdle /\ CtorIdle
    /\ job \in ReplayJobs
    /\ runRes = None

ReplayNext == Replay /\ UNCHANGED <<calcVars, sortVars, backVars, rankVars, fetchVars, ctorVars>>

SpecReplay == ReplayInit /\ [][ReplayNext]_vars

\* C17: for a target date D and two full daily series with the same bars up
\* to D (their weekly and monthly series derived from them), the Backfill
\* Simulator gives every instrument of the group the same Metrics Snapshot
\* and the same rank for D, whatever the bars after D are.
C17_NoLookahead ==
    (runRes # None /\ job.entry = "replay") =>
        /\ Len(runRes[1].first) = Len(Pair)
        /\ \A i \in 1..Len(Pair) :
              /\ runRes[1].first[i].code = runRes[1].second[i].code
              /\ runRes[1].first[i].snapshot = runRes[1].second[i].snapshot
              /\ runRes[1].first[i].rank = runRes[1].second[i].rank

\* the two series differ after D, on days of D's week, both instruments are
\* ranked, and the weekly series up to D is long enough for a weekly status
C17_Witness ==
    /\ runRes # None /\ job.entry = "replay"
    /\ Len(job.first) > Len(job.second)
    /\ job.first[Len(job.first)].close # job.second[Len(job.second)].close
    /\ WeekEnd(job.first[Len(job.first)].date) = WeekEnd(job.target_date)
    /\ \A i \in 1..Len(Pair) : runRes[1].first[i].error = None
    /\ \E i \in 1..Len(Pair) :
          /\ runRes[1].first[i].code = "A"
          /\ runRes[1].first[i].snapshot[1].big_cycle_status[1] # "-"

----------------------------------------------------------------------------
(* One run of backfill_archive.py: its fetches and the dates it replays *)

FetchEvent(code, source) == [kind |-> "fetch", code |-> code, source |-> source, date |-> None]
DateEvent(date) == [kind |-> "date", code |-> None, source |-> None, date |-> Some(date)]

\* get_trading_days: the sample's dates within the range, ascending
get_trading_days(start_date, end_date, sample_df) ==
    IF sample_df = None \/ sample_df[1] = <<>> THEN <<>>
    ELSE Dates(sort_values(SelectSeq(sample_df[1],
                   LAMBDA b : start_date <= b.date /\ b.date <= end_date)))

\* cache_key = f"{code}_{source}"
CacheKey(idx) == idx.code \o "_" \o idx.source

\* the preload loop of main(): one fetch per configured instrument
PreloadAll(indices, fetched, log) ==
    [data_cache |-> [key \in {CacheKey(indices[i]) : i \in 1..Len(indices)} |->
                        CacheEntry(fetched[key])],
     log |-> log \o [i \in 1..Len(indices) |->
                        FetchEvent(indices[i].code, indices[i].source)]]

\* the fetches of process_indices_at_date: one per instrument not in the cache
MissFetches(indices, cache) ==
    LET F[i \in 0..Len(indices)] ==
            IF i = 0 THEN <<>>
            ELSE IF CacheKey(indices[i]) \in DOMAIN cache THEN F[i - 1]
            ELSE Append(F[i - 1], FetchEvent(indices[i].code, indices[i].source))
    IN  F[Len(indices)]

\* the per-date loop of main() on a preloaded cache
ReplayAll(indices, trading_days, pre) ==
    LET F[i \in 0..Len(trading_days)] ==
            IF i = 0 THEN pre.log
            ELSE F[i - 1] \o <<DateEvent(trading_days[i])>>
                          \o MissFetches(indices, pre.data_cache)
    IN  F[Len(trading_days)]

\* main() of backfill_archive.py. indices: major_indices + sector_indices;
\* fetched: cache key -> what fetch_index returns for the instrument
backfill_main(indices, fetched, start_date, end_date) ==
    LET sample == fetch_index("000300", "cs_index", None, BACKFILL_DAYS).series
        sample_df == IF sample = None THEN None ELSE Some(sample[1].rows)
        log == <<FetchEvent("000300", "cs_index")>>
        trading_days == get_trading_days(start_date, end_date, sample_df)
    IN  IF trading_days = <<>> THEN [exit |-> "no_trading_days", log |-> log]
        ELSE [exit |-> "done",
              log |-> ReplayAll(indices, trading_days, PreloadAll(indices, fetched, log))]

\* the configured instruments (config.yaml is not part of the sources)
Configured ==
    <<[code |-> "000300", source |-> "cn_index"], [code |-> "399006", source |-> "cn_index"],
      [code |-> "881101", source |-> "cn_index"]>>

BackfillJobs ==
    { [entry |-> "backfill", fetched |-> f, start_date |-> a, end_date |-> b] :
        f \in [{CacheKey(Configured[i]) : i \in 1..Len(Configured)} ->
                  {None, Some(TwentyBars(9, 10)), Some(TwentyBars(10, 11))}],
        a \in (FirstDay - 7)..FirstDay, b \in (FirstDay - 7)..LastDay }

BackfillOnce ==
    /\ job.entry = "backfill"
    /\ runRes = None
    /\ runRes' = Some(backfill_main(Configured, job.fetched, job.start_date, job.end_date))
    /\ UNCHANGED job

BackfillRunInit ==
    /\ CalcIdle /\ SortIdle /\ BackIdle /\ RankIdle /\ FetchIdle /\ CtorIdle
    /\ job \in BackfillJobs
    /\ runRes = None

BackfillRunNext ==
    BackfillOnce /\ UNCHANGED <<calcVars, sortVars, backVars, rankVars, fetchVars, ctorVars>>

SpecBackfillRun == BackfillRunInit /\ [][BackfillRunNext]_vars

FetchesOf(log, idx) ==
    {k \in 1..Len(log) : log[k].kind = "fetch" /\ log[k].code = idx.code
                                               /\ log[k].source = idx.source}

\* C18: in a backfill run over a range that holds trading days, the fetcher
\* is invoked exactly once for every configured instrument, whether that
\* fetch returns a series or null, and every fetch of the run precedes the
\* first target date: none happens inside the per-date loop.
C18_FetchOncePerInstrument ==
    (runRes # None /\ job.entry = "backfill"
        /\ \E d \in job.start_date..job.end_date : is_trading_day(d)) =>
        LET log == runRes[1].log
        IN  /\ \A i \in 1..Len(Configured) :
                  Cardinality(FetchesOf(log, Configured[i])) = 1
            /\ \A j, k \in 1..Len(log) :
                  (log[j].kind = "date" /\ log[k].kind = "fetch") => k < j

----------------------------------------------------------------------------
(* The Resampler on daily series with trading days missing *)

SpanDays == 16         \* calendar days the daily series may cover

\* Sunday 2019-09-22: the span holds the turn of the month inside a week, and
\* three weeks, so that the middle one can be left without a bar
SpanStart == FirstDay - 10

ClosePattern(d) == 9 + ((2 * d) % 3)

\* the ascending daily series with one bar on each of the days
DailyOn(days) ==
    LET F[n \in SpanStart..(SpanStart + SpanDays)] ==
            IF n = SpanStart THEN <<>>
            ELSE IF (n - 1) \in days
                 THEN Append(F[n - 1], Bar(n - 1, ClosePattern(n - 1), ClosePattern(n - 2)))
                 ELSE F[n - 1]
    IN  F[SpanStart + SpanDays]

ResampleJobs ==
    { [entry |-> "resample", daily |-> DailyOn(days)] :
        days \in (SUBSET {d \in SpanStart..(SpanStart + SpanDays - 1) : is_trading_day(d)})
                     \ {{}} }

\* the weekly and the monthly series derived from the daily one, each twice
ResampleTwice ==
    /\ job.entry = "resample"
    /\ runRes = None
    /\ runRes' = Some([weekly |-> process_weekly_data(Some(job.daily)),
                       monthly |-> process_monthly_data(Some(job.daily)),
                       weekly_again |-> process_weekly_data(Some(job.daily)),
                       monthly_again |-> process_monthly_data(Some(job.daily))])
    /\ UNCHANGED job

ResampleInit ==
    /\ CalcIdle /\ SortIdle /\ BackIdle /\ RankIdle /\ FetchIdle /\ CtorIdle
    /\ job \in ResampleJobs
    /\ runRes = None

ResampleNext ==
    ResampleTwice /\ UNCHANGED <<calcVars, sortVars, backVars, rankVars, fetchVars, ctorVars>>

SpecResample == ResampleInit /\ [][ResampleNext]_vars

\* the daily bars (indices) of the week that ends on the day label, and of
\* the month label lies in
InWeek(d, label) == {i \in 1..Len(d) : d[i].date <= label /\ label - d[i].date <= 6}
InMonth(d, label) ==
    {i \in 1..Len(d) : /\ isoformat(d[i].date)[1] = isoformat(label)[1]
                       /\ isoformat(d[i].date)[2] = isoformat(label)[2]}

\* bar is the aggregate of the daily bars with the indices in window: open
\* of the first, close of the last, highest high and lowest low
AggregateOf(bar, d, window) ==
    /\ window # {}
    /\ \A i \in window : bar.high >= d[i].high /\ bar.low <= d[i].low
    /\ \E i \in window : bar.high = d[i].high
    /\ \E i \in window : bar.low = d[i].low
    /\ \E i \in window : (\A j \in window : i <= j) /\ bar.open = d[i].open
    /\ \E i \in window : (\A j \in window : j <= i) /\ bar.close = d[i].close

\* C19: resampling a daily series twice gives the same weekly and the same
\* monthly series; every weekly bar is dated on a Sunday and aggregates
\* exactly the daily bars of the seven days ending on it, every monthly bar
\* is dated on the last calendar day of a month and aggregates exactly the
\* daily bars of that month, every daily bar falls in exactly one bar of
\* each, whichever trading days the daily series lacks.
C19_ResamplerFixedWindows ==
    (runRes # None /\ job.entry = "resample") =>
        LET d == job.daily
            w == runRes[1].weekly[1]
            m == runRes[1].monthly[1]
        IN  /\ runRes[1].weekly_again = runRes[1].weekly
            /\ runRes[1].monthly_again = runRes[1].monthly
            /\ \A k \in 1..Len(w) :
                  Weekday(w[k].date) = 6 /\ AggregateOf(w[k], d, InWeek(d, w[k].date))
            /\ \A k \in 1..Len(m) :
                  /\ isoformat(m[k].date + 1)[3] = 1
                  /\ AggregateOf(m[k], d, InMonth(d, m[k].date))
            /\ \A i \in 1..Len(d) :
                  /\ Cardinality({k \in 1..Len(w) : i \in InWeek(d, w[k].date)}) = 1
                  /\ Cardinality({k \in 1..Len(m) : i \in InMonth(d, m[k].date)}) = 1

\* a daily series with a Monday and a Thursday of one week but not the days
\* between them, and with the last day of a month and the first of the next
\* in one week
C19_Witness ==
    /\ runRes # None /\ job.entry = "resample"
    /\ \E i \in 1..(Len(job.daily) - 1) :
          /\ Weekday(job.daily[i].date) = 0
          /\ job.daily[i + 1].date = job.daily[i].date + 3
    /\ \E i \in 1..(Len(job.daily) - 1) :
          /\ job.daily[i + 1].date = job.daily[i].date + 1
          /\ isoformat(job.daily[i + 1].date)[3] = 1
          /\ Weekday(job.daily[i].date) < 4
    /\ Len(runRes[1].weekly[1]) = 2
    /\ Len(runRes[1].monthly[1]) = 2

----------------------------------------------------------------------------
(* calculate_deviation on a price and a 20-bar mean drawn freely *)

MaxPrice == 3          \* largest price

\* a price, and the mean of 20 prices as calculate_ma20 returns it
DeviationJobs ==
    { [entry |-> "deviation", current_price |-> p, ma20 |-> Frac(sum, MA_WINDOW)] :
        p \in 0..MaxPrice, sum \in 0..(MA_WINDOW * MaxPrice) }

CalculateDeviation ==
    /\ job.entry = "deviation"
    /\ runRes = None
    /\ runRes' = Some(calculate_deviation(job.current_price, job.ma20))
    /\ UNCHANGED job

DeviationInit ==
    /\ CalcIdle /\ SortIdle /\ BackIdle /\ RankIdle /\ FetchIdle /\ CtorIdle
    /\ job \in DeviationJobs
    /\ runRes = None

DeviationNext ==
    CalculateDeviation /\ UNCHANGED <<calcVars, sortVars, backVars, rankVars, fetchVars, ctorVars>>

SpecDeviation == DeviationInit /\ [][DeviationNext]_vars

\* the sign of the returned deviation% is the sign of current price - MA20
SignMatches ==
    /\ (runRes[1].n = 0) <=> (job.current_price * job.ma20.d = job.ma20.n)
    /\ (runRes[1].n > 0) <=> (job.current_price * job.ma20.d > job.ma20.n)
    /\ (runRes[1].n < 0) <=> (job.current_price * job.ma20.d < job.ma20.n)

----------------------------------------------------------------------------
(* DataFetcher objects constructed by several threads of one process *)

MaxFetchers == 2       \* DataFetchers one thread constructs

\* the days datetime.now() can fall on while the threads run
NowDays == {FirstDay, FirstDay + 1}

\* datetime.now().strftime("%Y%m%d"): the year, month and day of the date
strftime_Ymd(d) == isoformat(d)

\* DataFetcher.__init__: self.today and nothing else, no hook, no lock, no flag
DataFetcher(now) == [today |-> strftime_Ymd(now)]

\* thread t runs DataFetcher() once more
Construct(t) ==
    /\ Len(fetchers[t]) < MaxFetchers
    /\ \E now \in NowDays :
          fetchers' = [fetchers EXCEPT ![t] = Append(@, DataFetcher(now))]
    /\ UNCHANGED installed

ConstructInit ==
    /\ CalcIdle /\ SortIdle /\ BackIdle /\ RankIdle /\ FetchIdle /\ RunIdle
    /\ fetchers = [t \in Threads |-> <<>>]
    /\ installed = 0

ConstructNext ==
    (\E t \in Threads : Construct(t))
        /\ UNCHANGED <<calcVars, sortVars, backVars, rankVars, fetchVars, runVars>>

SpecConstruct == ConstructInit /\ [][ConstructNext]_vars

\* C21: once any DataFetcher has been constructed, by whichever threads and
\* in whichever interleaving, the outbound-request identity hook has been
\* installed exactly once in the process.
C21_InstalledExactlyOnce ==
    (\E t \in Threads : fetchers[t] # <<>>) => installed = 1

----------------------------------------------------------------------------
(* calculate_big_cycle_status on weekly and monthly series of 19 and more periods *)

MaxPeriods == 21       \* longest weekly or monthly series

\* n period bars, one per week, closing at 10 except the 20th bar from the end
\* (close old) and the most recent bar (close last)
PeriodSeries(n, old, last) ==
    [i \in 1..n |->
        Bind(IF i = n THEN last ELSE IF i = n - 19 THEN old ELSE 10,
             LAMBDA c : Bar(7 * i - 1, c, c))]

PeriodFrames ==
    {None} \cup { Some(PeriodSeries(n, old, last)) :
                    n \in 19..MaxPeriods, old \in {8, 10, 12}, last \in {8, 12} }

CycleJobs ==
    { [entry |-> "big_cycle", current_price |-> p, weekly_df |-> w, monthly_df |-> m] :
        p \in {9, 10, 11}, w \in PeriodFrames, m \in PeriodFrames }

BigCycleStatus ==
    /\ job.entry = "big_cycle"
    /\ runRes = None
    /\ runRes' = Some(calculate_big_cycle_status(job.current_price, job.weekly_df,
                                                  job.monthly_df))
    /\ UNCHANGED job

CycleInit ==
    /\ CalcIdle /\ SortIdle /\ BackIdle /\ RankIdle /\ FetchIdle /\ CtorIdle
    /\ job \in CycleJobs
    /\ runRes = None

CycleNext ==
    BigCycleStatus /\ UNCHANGED <<calcVars, sortVars, backVars, rankVars, fetchVars, ctorVars>>

SpecCycle == CycleInit /\ [][CycleNext]_vars

\* the token the claim describes: the current price against the mean of the
\* current price and the 19 closes before the most recent period
SubstitutedToken(p, frame) ==
    IF frame = None \/ Len(frame[1]) < 20 THEN "-"
    ELSE IF p * 20 >= SumSlice(Closes(frame[1]), Len(frame[1]) - 20, Len(frame[1]) - 1) + p
         THEN "YES" ELSE "NO"

\* C22: for a weekly (monthly) series of at least 20 periods the token is YES
\* exactly when the current price is at least the mean of the current price
\* and the 19 period closes before the most recent period, whose own close
\* is replaced by the current price; with fewer than 20 periods it is "-".
C22_BigCycleSubstitutesLastClose ==
    (runRes # None /\ job.entry = "big_cycle") =>
        /\ runRes[1][1] = SubstitutedToken(job.current_price, job.weekly_df)
        /\ runRes[1][2] = SubstitutedToken(job.current_price, job.monthly_df)

----------------------------------------------------------------------------
(* find_status_change_date on the series built so far (SpecCalc) *)

\* the status of bar i (0-based) against the mean of the 20 closes ending at it
HistoricalStatus(d, i) ==
    IF d[i + 1].close * 20 >= SumSlice(Closes(d), i - 19, i + 1) THEN "YES" ELSE "NO"

\* the bars the scan examines: from the second-to-last bar back over the
\* lookback, no further than bar 20
Examined(d, lookback) ==
    { i \in 20..(Len(d) - 2) : i >= Len(d) - lookback }

\* C24: find_status_change_date returns no date when the series has fewer
\* than 21 bars or no examined bar has a status other than the current one;
\* a returned date is the date of the bar right after the most recent bar,
\* at or before the second-to-last, whose status differs from the current one.
C24_ChangeDateFollowsLastDifferingBar ==
    change # None =>
        LET d == change[1].df
            st == change[1].current_status
            found == change[1].found
        IN  /\ (Len(d) < 21
                 \/ \A i \in Examined(d, lookback_days) : HistoricalStatus(d, i) = st)
                => found[1] = None
            /\ found[1] # None =>
                  \E i \in 19..(Len(d) - 2) :
                      /\ HistoricalStatus(d, i) # st
                      /\ \A j \in (i + 1)..(Len(d) - 2) : HistoricalStatus(d, j) = st
                      /\ found[1] = Some(d[i + 2].date)

\* the scan passed the second-to-last bar and stopped at the one before it
C24_Witness ==
    /\ change # None
    /\ Len(change[1].df) = MaxBars
    /\ HistoricalStatus(change[1].df, MaxBars - 2) = change[1].current_status
    /\ change[1].found[1] = Some(change[1].df[MaxBars - 1].date)

----------------------------------------------------------------------------
(* The interval change: calculate_all_metrics on series of 20 bars and more, *)
(* and calculate_interval_change on a price and a reference drawn freely     *)

\* the 19 sparse bars followed by one to MaxBars - 19 trading days
LongSeries ==
    UNION { { ExtendBy(InitialSeries(base), closes) : closes \in [1..k -> Prices] } :
              base \in BasePrices, k \in 1..(MaxBars - 19) }

IntervalJobs ==
    { [entry |-> "all_metrics", df |-> d, current_price |-> cp, lookback |-> lb] :
        d \in LongSeries, cp \in {None, Some(9), Some(11)}, lb \in Lookbacks }
    \cup
    { [entry |-> "interval_change", current_price |-> p, change_ma20 |-> m] :
        p \in 0..MaxPrice,
        m \in {None} \cup { Some(Frac(sum, MA_WINDOW)) : sum \in 0..(2 * MaxPrice) } }

\* calculate_all_metrics(df, current_price) with no weekly or monthly frame
AllMetrics ==
    /\ job.entry = "all_metrics"
    /\ runRes = None
    /\ runRes' = Some(calculate_all_metrics(Some(job.df), job.current_price, None, None,
                                             job.lookback))
    /\ UNCHANGED job

IntervalChange ==
    /\ job.entry = "interval_change"
    /\ runRes = None
    /\ runRes' = Some(calculate_interval_change(job.current_price, job.change_ma20))
    /\ UNCHANGED job

IntervalInit ==
    /\ CalcIdle /\ SortIdle /\ BackIdle /\ RankIdle /\ FetchIdle /\ CtorIdle
    /\ job \in IntervalJobs
    /\ runRes = None

IntervalNext ==
    (AllMetrics \/ IntervalChange)
        /\ UNCHANGED <<calcVars, sortVars, backVars, rankVars, fetchVars, ctorVars>>

SpecInterval == IntervalInit /\ [][IntervalNext]_vars

\* the 1-based position of the bar of series d dated day
BarOn(d, day) == CHOOSE k \in 1..Len(d) : d[k].date = day

\* the sum of the 20 closes ending at the bar dated day
TrailingSum(d, day) == SumSlice(Closes(d), BarOn(d, day) - 20, BarOn(d, day))

\* (price / (sum / 20) - 1) * 100 is the value v
IsChangeOver(v, price, sum) ==
    v # None /\ FracEq(v[1], Frac((price * 20 - sum) * 100, sum))

\* C25: the interval change% is (current price / M - 1) * 100 with M the mean
\* of the 20 closes ending at the change-date bar, not that bar's close; it
\* is null when there is no change date or M is 0.
C25_IntervalChangeOverReferenceMA ==
    /\ (runRes # None /\ job.entry = "all_metrics" /\ runRes[1].error = None) =>
          IF runRes[1].change_date = None THEN runRes[1].interval_change = None
          ELSE Bind(TrailingSum(job.df, runRes[1].change_date[1]), LAMBDA sum :
                   IF sum = 0 THEN runRes[1].interval_change = None
                   ELSE IsChangeOver(runRes[1].interval_change,
                                     runRes[1].current_price[1], sum))
    /\ (runRes # None /\ job.entry = "interval_change") =>
          IF job.change_ma20 = None \/ job.change_ma20[1].n = 0 THEN runRes[1] = None
          ELSE IsChangeOver(runRes[1], job.current_price,
                            job.change_ma20[1].n * (MA_WINDOW \div job.change_ma20[1].d))

\* a change date was found whose bar closes away from the mean of the 20
\* closes ending at it
C25_Witness ==
    /\ runRes # None /\ job.entry = "all_metrics"
    /\ runRes[1].change_date # None
    /\ runRes[1].interval_change # None
    /\ TrailingSum(job.df, runRes[1].change_date[1])
         # 20 * job.df[BarOn(job.df, runRes[1].change_date[1])].close

----------------------------------------------------------------------------
(* The Resampler's aggregation (SpecResample) *)

\* the largest and the smallest member of a non-empty set of numbers
Highest(S) == CHOOSE x \in S : \A y \in S : y <= x
Lowest(S) == CHOOSE x \in S : \A y \in S : x <= y

\* bar carries the open of the first daily bar of the window, the close of
\* its last, the maximum of its highs and the minimum of its lows
CarriesWindow(bar, d, window) ==
    /\ bar.open = d[Lowest(window)].open
    /\ bar.close = d[Highest(window)].close
    /\ bar.high = Highest({d[i].high : i \in window})
    /\ bar.low = Lowest({d[i].low : i \in window})

\* C23: every derived weekly and monthly bar has the open of the first daily
\* bar of its window, the highest high and the lowest low of the window and
\* the close of its last daily bar; a window without a daily bar has no
\* derived bar, so there are as many derived bars as windows holding one.
C23_AggregationPerWindow ==
    (runRes # None /\ job.entry = "resample") =>
        LET d == job.daily
            w == runRes[1].weekly[1]
            m == runRes[1].monthly[1]
        IN  /\ \A k \in 1..Len(w) :
                  InWeek(d, w[k].date) # {} /\ CarriesWindow(w[k], d, InWeek(d, w[k].date))
            /\ \A k \in 1..Len(m) :
                  InMonth(d, m[k].date) # {} /\ CarriesWindow(m[k], d, InMonth(d, m[k].date))
            /\ Len(w) = Cardinality({ d[i].date - Weekday(d[i].date) : i \in 1..Len(d) })
            /\ Len(m) = Cardinality({ isoformat(d[i].date)[2] : i \in 1..Len(d) })

\* daily bars in the first and in the third week and none in the second: two
\* weekly bars two weeks apart, the first of them over several daily bars
\* whose highs differ
C23_Witness ==
    /\ runRes # None /\ job.entry = "resample"
    /\ Len(runRes[1].weekly[1]) = 2
    /\ runRes[1].weekly[1][2].date = runRes[1].weekly[1][1].date + 14
    /\ Cardinality({ job.daily[i].high : i \in InWeek(job.daily, runRes[1].weekly[1][1].date) }) > 1
    /\ Len(runRes[1].monthly[1]) = 2

----------------------------------------------------------------------------
(* Truncation in the backfill (SpecBackfill) *)

\* part holds exactly the bars of the ascending series whole dated on or before
\* day, in their order
IsTruncation(part, whole, day) ==
    /\ part # None
    /\ Len(part[1]) = Cardinality({i \in 1..Len(whole[1]) : whole[1][i].date <= day})
    /\ \A i \in 1..Len(part[1]) : part[1][i] = whole[1][i]

\* C26: the frames process_indices_at_date computes for a target date hold
\* exactly the cached daily, weekly and monthly bars dated on or before it, in
\* their order, and after any sequence of target dates the cache still holds
\* the series that were preloaded.
C26_TruncationIsPureFilter ==
    /\ data_cache # None =>
          data_cache[1] = [code \in {"A"} |-> CacheEntry(FetchedTail(df, BACKFILL_DAYS))]
    /\ bfRes # None =>
          /\ IsTruncation(bfRes[1].df_at_date, data_cache[1]["A"].daily, bfRes[1].date)
          /\ IsTruncation(bfRes[1].weekly_at_date, data_cache[1]["A"].weekly, bfRes[1].date)
          /\ IsTruncation(bfRes[1].monthly_at_date, data_cache[1]["A"].monthly,
                          bfRes[1].date)

\* a target date before the end of the cached series: the daily and the
\* weekly frame are both cut short
C26_Witness ==
    /\ bfRes # None
    /\ Len(bfRes[1].df_at_date[1]) < Len(data_cache[1]["A"].daily[1])
    /\ Len(bfRes[1].weekly_at_date[1]) < Len(data_cache[1]["A"].weekly[1])
    /\ bfRes[1].df_at_date[1][Len(bfRes[1].df_at_date[1])].date = bfRes[1].date

----------------------------------------------------------------------------
(* The cascade of source cn_index (SpecFetch) *)

\* the code-based strategy the code prefix selects
CodeBased(code) ==
    IF StartsWith(code, "881") THEN "_fetch_ths_industry_index"
    ELSE "_fetch_cn_index_standard"

\* the position, among the provider calls, of the code-based strategy's data
\* call: the industry-board strategy looks the board list up first
CodeCall(code) == IF StartsWith(code, "881") THEN 2 ELSE 1

\* a provider answer the code-based and the name-based strategy make a series of
Usable(outcome) == outcome \in {"ok", "dirty"}

ByNameCalls ==
    {i \in 1..Len(fetchRes[1].t.calls) :
        fetchRes[1].t.calls[i].provider = "stock_board_industry_hist_em"}

\* the code-based strategy was tried first; its series, when it returns one,
\* is the result and the name-based provider is not called; when it returns
\* none and a name was supplied the name-based provider is called once, with
\* that name, and decides the result
CodeThenName ==
    LET calls == fetchRes[1].t.calls
        k == CodeCall(request.code)
    IN  /\ Len(fetchRes[1].t.tried) >= 2
        /\ fetchRes[1].t.tried[2] = CodeBased(request.code)
        /\ Len(calls) >= k
        /\ Usable(env[k]) =>
              /\ fetchRes[1].series # None
              /\ fetchRes[1].series[1].provider = calls[k].provider
              /\ Len(calls) = k
              /\ ByNameCalls = {}
        /\ (~Usable(env[k]) /\ request.name # None) =>
              /\ ByNameCalls = {k + 1}
              /\ Len(calls) = k + 1
              /\ calls[k + 1].symbol = request.name[1]
              /\ (fetchRes[1].series # None) <=> Usable(env[k + 1])
              /\ fetchRes[1].series # None =>
                    fetchRes[1].series[1].provider = "stock_board_industry_hist_em"

----------------------------------------------------------------------------
(* The two generations of the Rank Ledger (SpecLedger) *)

\* the most recent update_today call that changed today's date
LastDateChange ==
    CHOOSE k \in 1..Len(liveLog) :
        /\ ~SameDateCall(k)
        /\ \A j \in (k + 1)..Len(liveLog) : SameDateCall(j)

\* C29: from an empty ledger on, after any sequence of update_today calls,
\* the two generations, when both are there, carry different dates, and
\* 'yesterday' is the generation that was 'today' right before the most
\* recent call that changed today's date.
C29_GenerationsOfDifferentDates ==
    store # None =>
        /\ (store[1].today # None /\ store[1].yesterday # None) =>
              store[1].today[1].date # store[1].yesterday[1].date
        /\ store[1].yesterday = liveLog[LastDateChange].prior.today

\* three calls, the second for a new date and the third for the same date
\* with other ranks: 'yesterday' still is the generation of the first call
C29_Witness ==
    /\ store # None
    /\ Len(liveLog) = 3
    /\ LastDateChange = 2
    /\ store[1].yesterday # None
    /\ store[1].today[1].major_indices # liveLog[3].prior.today[1].major_indices

----------------------------------------------------------------------------
(* Snapshots and their ranking: calculate_all_metrics on frames of every kind, *)
(* and the result list of a group made of them                                 *)

\* no frame, an empty frame, 19 bars, or 20 bars
AnyFrames ==
    {None, Some(<<>>)} \cup {Some(InitialSeries(base)) : base \in BasePrices}
                       \cup {Some(TwentyBars(base, c)) : base \in BasePrices, c \in Prices}

SnapshotJobs ==
    { [entry |-> "snapshots", frames |-> f, current_price |-> cp] :
        f \in [{"A", "B"} -> AnyFrames], cp \in {None, Some(10)} }

\* calculate_all_metrics on each frame; the result list process_indices_at_date
\* makes of the frames on the day of their last bar; and what main() reads off
\* a result list by its error flag
Snapshots ==
    /\ job.entry = "snapshots"
    /\ runRes = None
    /\ \E results \in {process_indices_at_date(Pair,
                              [code \in {"A", "B"} |-> CacheEntry(job.frames[code])],
                              TwentyBars(9, 9)[20].date, DEFAULT_LOOKBACK)} :
         runRes' = Some([snapshots |->
                             [code \in {"A", "B"} |->
                                 calculate_all_metrics(job.frames[code], job.current_price,
                                                       None, None, DEFAULT_LOOKBACK)],
                         results |-> results,
                         failed_count |-> FailedCount(results),
                         ranks |-> RanksOf(results)])
    /\ UNCHANGED job

SnapshotInit ==
    /\ CalcIdle /\ SortIdle /\ BackIdle /\ RankIdle /\ FetchIdle /\ CtorIdle
    /\ job \in SnapshotJobs
    /\ runRes = None

SnapshotNext ==
    Snapshots /\ UNCHANGED <<calcVars, sortVars, backVars, rankVars, fetchVars, ctorVars>>

SpecSnapshot == SnapshotInit /\ [][SnapshotNext]_vars

\* C28: in every snapshot calculate_all_metrics returns, error is set exactly
\* when deviation is null and exactly when status is null; so in a result
\* list the items the ranking treats as valid (deviation present) are the
\* items without the error flag: the failure count is the number of items
\* without deviation, and the ranks recorded are those of the items with one.
C28_ErrorIffNoDeviation ==
    (runRes # None /\ job.entry = "snapshots") =>
        /\ \A code \in {"A", "B"} :
              /\ (runRes[1].snapshots[code].error # None)
                    <=> (runRes[1].snapshots[code].deviation = None)
              /\ (runRes[1].snapshots[code].error # None)
                    <=> (runRes[1].snapshots[code].status = None)
        /\ \A i \in 1..Len(runRes[1].results) :
              (runRes[1].results[i].error # None) <=> ~HasDeviation(runRes[1].results[i])
        /\ runRes[1].failed_count
              = Cardinality({i \in 1..Len(runRes[1].results) :
                                ~HasDeviation(runRes[1].results[i])})
        /\ DOMAIN runRes[1].ranks
              = {runRes[1].results[i].code :
                    i \in {k \in 1..Len(runRes[1].results) :
                              HasDeviation(runRes[1].results[k])}}

\* a group of a 20-bar series and a 19-bar series: one snapshot with a
\* deviation, ranked first, and one with the error of too short a series
C28_Witness ==
    /\ runRes # None /\ job.entry = "snapshots"
    /\ runRes[1].snapshots["A"].error = Some("data_insufficient")
    /\ runRes[1].snapshots["B"].deviation # None
    /\ runRes[1].results[1].code = "B"
    /\ runRes[1].results[2].snapshot # None
    /\ runRes[1].failed_count = 1

----------------------------------------------------------------------------
(* The length of a fetch (SpecFetch) *)

\* C30: every fetch_index call ends after at most four strategy attempts and
\* MaxCalls provider calls, whatever the code, the source and the providers'
\* answers; for source eastmoney the attempts alternate between
\* _fetch_eastmoney_index and _fetch_eastmoney_index_alt, are more than two
\* only for a 1B code of the code map, and the code the chain is re-entered
\* with is no 1B code, so it is not mapped again.
C30_BoundedStrategyAttempts ==
    fetchRes # None =>
        /\ Len(fetchRes[1].t.tried) <= 4
        /\ Len(fetchRes[1].t.calls) <= MaxCalls
        /\ request.source = "eastmoney" =>
              /\ \A i \in 1..Len(fetchRes[1].t.tried) :
                    fetchRes[1].t.tried[i] = IF i % 2 = 1 THEN "_fetch_eastmoney_index"
                                             ELSE "_fetch_eastmoney_index_alt"
              /\ Len(fetchRes[1].t.tried) > 2 =>
                    /\ request.code \in {"1B0688", "1B0852", "1B0016", "1B0932"}
                    /\ fetchRes[1].t.calls[2].provider = "index_zh_a_hist"
                    /\ ~StartsWith(fetchRes[1].t.calls[2].symbol, "1B")

\* a mapped 1B code whose first two provider calls fail: four attempts, the
\* last of them the alternative provider with the mapped code
C30_Witness ==
    /\ fetchRes # None
    /\ request.source = "eastmoney" /\ request.code = "1B0688"
    /\ Len(fetchRes[1].t.tried) = 4
    /\ Len(fetchRes[1].t.calls) = 3
    /\ fetchRes[1].t.calls[3].provider = "stock_zh_index_daily_em"
    /\ fetchRes[1].t.calls[3].symbol = IndexDailySymbol("000688")

====
